---- MODULE Spec2Model ----
(***************************************************************************)
(* Duplicate Resolution & Merge Engine of DATA_CLEANER_BACKEND.            *)
(*                                                                         *)
(* Part I models the apply-merge controller                                *)
(* (applyEntitiesDuplicateMergeController): request validation, the        *)
(* findMany snapshot, and the Prisma interactive transaction that applies  *)
(* the merge, for requests that interleave at the controller's awaits.     *)
(* Part II models one analysis pass of the Planner                         *)
(* (getPotentialDuplicatePeopleGroupsController).                          *)
(*                                                                         *)
(* Conventions: a nullable column holds <<>> for null and <<v>> for a      *)
(* value; an optional payload field holds <<>> when it is absent           *)
(* (undefined) and <<v>> when present; text is a tuple of one-character    *)
(* strings so that trim() and toLowerCase() are computed.                  *)
(***************************************************************************)
EXTENDS Integers, Sequences, FiniteSets, TLC

\* ------------------------------------------------------------------ bounds
NumEntities == 3
MaxClock == 2
MaxRemove == 2
MaxItems == 2
NumListed == 4
MaxPage == 2
MaxLimit == 2

EntityIds == 1 .. NumEntities
\* ids a client may name: 0 (falsy / absent), the existing ids, one id that exists nowhere
ClientIds == 0 .. (NumEntities + 1)
Reqs1 == {1}
Reqs2 == {1, 2}

Null == <<>>
Some(v) == <<v>>
Undefined == <<>>

\* ------------------------------------------------------------------ text
Lower(c) ==
  CASE c = "A" -> "a"
    [] c = "B" -> "b"
    [] OTHER -> c

RECURSIVE toLowerCase(_)
toLowerCase(s) == IF s = <<>> THEN <<>> ELSE <<Lower(Head(s))>> \o toLowerCase(Tail(s))

RECURSIVE trimStart(_)
trimStart(s) == IF s # <<>> /\ Head(s) = " " THEN trimStart(Tail(s)) ELSE s

RECURSIVE trimEnd(_)
trimEnd(s) ==
  IF s # <<>> /\ s[Len(s)] = " " THEN trimEnd(SubSeq(s, 1, Len(s) - 1)) ELSE s

trim(s) == trimEnd(trimStart(s))

Range(s) == {s[i] : i \in DOMAIN s}

\* ------------------------------------------------------------------ dates
\* what a client can put in a date field: nothing (undefined is falsy, as are null and
\* ""), an empty object, text that is no date, a date
RawDates == {"undefined", "{}", "not-a-date", "2000-01-01"}
NaN == <<"NaN">>
\* new Date(x).getTime()
DateParse(date) == IF date = "2000-01-01" THEN Some(date) ELSE NaN

sanitizeDateUnparsed(date) ==
  IF date = "undefined" \/ date = "{}" THEN Null ELSE DateParse(date)

sanitizeDate(date) ==
  IF date = "undefined" \/ date = "{}"
  THEN Null
  ELSE LET parsed == DateParse(date) IN IF parsed = NaN THEN Null ELSE parsed

\* ------------------------------------------------------------------ store
VARIABLES
  db,        \* the entities database: tables entity, people, address, entity_property
  audit,     \* the files under logs/: file name -> content
  clock,     \* the wall clock (new Date(), Date.now())
  req,       \* per in-flight HTTP request: position in the controller, body, snapshot, response
  workload,  \* which population of request bodies the clients send in this run
  pass,      \* the analysis pass of the Planner: fetched people, groups, loop position, output
  listing,   \* the last response of the duplicate-entity listings, with the groups it was cut from
  query      \* the natural-language query request: position in the handler, plan, log, responses

vars == <<db, audit, clock, req, workload, pass, listing, query>>

Acme == <<"A", "c">>
Beta == <<"B", "e">>
Renamed == <<"N", "w">>

EntityName(e) == IF e <= 2 THEN Acme ELSE Beta

\* each entity starts with one person, one address and one typed property of its own;
\* entities 1 and 2 hold the same property up to case and whitespace
InitEntity ==
  [e \in EntityIds |->
     [entity_id |-> e, name |-> EntityName(e), trade_name |-> Null, type |-> 2,
      is_deleted |-> FALSE, deleted_at |-> Null, updated_at |-> Null]]

InitPeople ==
  [i \in EntityIds |->
     [people_id |-> i, entity_id |-> i, first_name |-> <<"p">>, last_name |-> <<>>,
      date_of_birth |-> Null, deleted_at |-> Null, updated_at |-> Null]]

InitAddress ==
  [i \in EntityIds |->
     [address_id |-> i, entity_id |-> i, street |-> <<"s">>, is_primary |-> "Yes",
      deleted_at |-> Null, updated_at |-> Null]]

InitProperty ==
  {[entity_property_id |-> e, entity_id |-> e, property_id |-> 1,
    property_value |-> IF e = 1 THEN <<"a">> ELSE IF e = 2 THEN <<" ", "A">> ELSE <<"b">>,
    is_primary |-> IF e = 2 THEN "Yes" ELSE "No"] : e \in EntityIds}

InitDb ==
  [entity |-> InitEntity, people |-> InitPeople, address |-> InitAddress,
   entity_property |-> InitProperty, nextPropertyId |-> NumEntities + 1]

\* ------------------------------------------------------------------ request bodies
\* a JSON value that may or may not be an array
Arr(items) == [isArray |-> TRUE, items |-> items]
NotArray == [isArray |-> FALSE, items |-> <<>>]

SeqsUpTo(S, n) == UNION {[1 .. k -> S] : k \in 0 .. n}

PeopleEntries ==
  [people_id : ClientIds, first_name : {<<"q">>}, date_of_birth : RawDates]

AddressEntries ==
  [address_id : ClientIds, street : {<<"t">>}, is_primary : {"No"}]

PropertyEntries ==
  {[entity_property_id |-> i, property_id |-> k[1], property_value |-> k[2], is_primary |-> k[3]] :
     i \in ClientIds,
     k \in {<<1, <<"a">>, "No">>, <<1, <<"A", " ">>, "Yes">>, <<2, <<"a">>, "No">>}}

Merged(name, trade_name, people, address, props) ==
  [present |-> TRUE, name |-> name, trade_name |-> trade_name,
   people |-> people, address |-> address, entity_property |-> props]

\* a body with no merged_entity object
NoMergedEntity ==
  [present |-> FALSE, name |-> Undefined, trade_name |-> Undefined,
   people |-> NotArray, address |-> NotArray, entity_property |-> NotArray]

EmptyMerged == Merged(Undefined, Undefined, Arr(<<>>), Arr(<<>>), Arr(<<>>))

\* merged_entity objects in which one of the three lists is not an array
MalformedMerged ==
  {NoMergedEntity,
   Merged(Undefined, Undefined, NotArray, Arr(<<>>), Arr(<<>>)),
   Merged(Undefined, Undefined, Arr(<<>>), NotArray, Arr(<<>>)),
   Merged(Undefined, Undefined, Arr(<<>>), Arr(<<>>), NotArray)}

\* merged_entity objects that rename the entity and carry up to MaxItems sub-records in
\* one of the three lists
PayloadMerged ==
  {Merged(Some(Renamed), Some(Null), Arr(l), Arr(<<>>), Arr(<<>>)) :
     l \in SeqsUpTo(PeopleEntries, MaxItems)}
  \cup {Merged(Some(Renamed), Some(Null), Arr(<<>>), Arr(l), Arr(<<>>)) :
     l \in SeqsUpTo(AddressEntries, MaxItems)}
  \cup {Merged(Some(Renamed), Some(Null), Arr(<<>>), Arr(<<>>), Arr(l)) :
     l \in SeqsUpTo(PropertyEntries, MaxItems)}

RemoveArgs == {NotArray} \cup {Arr(l) : l \in SeqsUpTo(1 .. (NumEntities + 1), MaxRemove)}

Body(keep, remove, merged) ==
  [keep_entity_id |-> keep, remove_entity_ids |-> remove, merged_entity |-> merged]

\* concurrent workload: any ids, empty sub-record lists
IdBodies == {Body(k, rm, EmptyMerged) : k \in ClientIds, rm \in RemoveArgs}

\* single-request workload: any ids with a malformed merged_entity, existing ids with any
\* payload
PayloadBodies ==
  {Body(k, rm, m) : k \in ClientIds, rm \in RemoveArgs, m \in MalformedMerged}
  \cup {Body(k, Arr(l), m) :
           k \in EntityIds, l \in SeqsUpTo(EntityIds, MaxRemove) \ {<<>>}, m \in PayloadMerged}

\* listing workload: merges of one entity into another, over the listed store
ListedIds == 1 .. NumListed
ListingBodies ==
  {Body(kj[1], Arr(<<kj[2]>>), EmptyMerged) :
     kj \in {x \in ListedIds \X ListedIds : x[1] < x[2]}}

Bodies(w) ==
  CASE w = "concurrent" -> IdBodies
    [] w = "listing" -> ListingBodies
    [] OTHER -> PayloadBodies

\* ------------------------------------------------------------------ validation
Response(kind, message, ids, cause) ==
  [kind |-> kind, message |-> message, ids |-> ids, cause |-> cause]

NoResponse == Response("none", "", <<>>, "")
BadRequest(message, ids, cause) == Response("RouteError.BadRequest", message, ids, cause)

NoSnapshot == [e \in {} |-> {}]

allEntityIds(b) == <<b.keep_entity_id>> \o b.remove_entity_ids.items

\* entity.findMany({where: {entity_id: {in: ids}, is_deleted: false}, include: ...})
findManyAnyState(d, ids) ==
  [e \in {x \in DOMAIN d.entity : x \in Range(ids)} |->
     [entity_id |-> e,
      name |-> d.entity[e].name,
      people |-> {i \in DOMAIN d.people : d.people[i].entity_id = e},
      address |-> {i \in DOMAIN d.address : d.address[i].entity_id = e},
      entity_property |->
        {p.entity_property_id : p \in {q \in d.entity_property : q.entity_id = e}}]]

findMany(d, ids) ==
  [e \in {x \in DOMAIN d.entity : x \in Range(ids) /\ ~d.entity[x].is_deleted} |->
     [entity_id |-> e,
      name |-> d.entity[e].name,
      people |-> {i \in DOMAIN d.people : d.people[i].entity_id = e},
      address |-> {i \in DOMAIN d.address : d.address[i].entity_id = e},
      entity_property |->
        {p.entity_property_id : p \in {q \in d.entity_property : q.entity_id = e}}]]

\* the synchronous checks of the controller, in the order of the code; "" when all pass
SyncCheck(b) ==
  IF ~b.merged_entity.present THEN "TypeError: cannot destructure merged_entity"
  ELSE IF b.keep_entity_id = 0 THEN "Field 'keep_entity_id' is required"
  ELSE IF ~b.remove_entity_ids.isArray \/ Len(b.remove_entity_ids.items) = 0
    THEN "At least one entity must be in 'remove_entity_ids'"
  ELSE IF b.keep_entity_id \in Range(b.remove_entity_ids.items)
    THEN "'keep_entity_id' cannot be in 'remove_entity_ids'"
  ELSE IF ~b.merged_entity.people.isArray
    THEN "At least one person is required in 'merged_entity.people'"
  ELSE IF ~b.merged_entity.address.isArray THEN "'merged_entity.address' must be an array"
  ELSE IF ~b.merged_entity.entity_property.isArray
    THEN "'merged_entity.properties' must be an array"
  ELSE ""

\* the controller up to the start of the transaction: the request's next state
Validation(b, d) ==
  LET check == SyncCheck(b) IN
  IF ~b.merged_entity.present
  THEN [pc |-> "done", body |-> b, queried |-> FALSE, entities |-> NoSnapshot,
        resp |-> Response("TypeError", check, <<>>, "")]
  ELSE IF check # ""
  THEN [pc |-> "done", body |-> b, queried |-> FALSE, entities |-> NoSnapshot,
        resp |-> BadRequest(check, <<>>, "")]
  ELSE
    LET ids == allEntityIds(b)
        entities == findMany(d, ids)
        missing == SelectSeq(ids, LAMBDA id : id \notin DOMAIN entities)
    IN
    IF Cardinality(DOMAIN entities) # Len(ids)
    THEN [pc |-> "done", body |-> b, queried |-> TRUE, entities |-> NoSnapshot,
          resp |-> BadRequest("Invalid entity IDs: not found or already deleted", missing, "")]
    ELSE IF b.keep_entity_id \notin DOMAIN entities
    THEN [pc |-> "done", body |-> b, queried |-> TRUE, entities |-> NoSnapshot,
          resp |-> BadRequest("Keep entity not found", <<>>, "")]
    ELSE [pc |-> "validated", body |-> b, queried |-> TRUE, entities |-> entities,
          resp |-> NoResponse]

keptEntity(r) == r.entities[r.body.keep_entity_id]
removedEntities(r) ==
  {e \in DOMAIN r.entities : e \in Range(r.body.remove_entity_ids.items)}

\* ------------------------------------------------------------------ transaction
\* the state of a running transaction: its view of the tables, the log files, and the
\* message of the error that ended it ("" while it runs)
RecordNotFound == "P2025: record to update not found"
Interrupted == "transaction interrupted: connection error or timeout"

\* 1. tx.entity.update: name ?? keptEntity.name, trade_name, updated_at
UpdateKeptEntity(st, r, now) ==
  LET b == r.body
      m == b.merged_entity
      e == b.keep_entity_id
      row == st.db.entity[e]
      renamed == [row EXCEPT !.name = IF m.name = Undefined THEN keptEntity(r).name
                                                             ELSE m.name[1],
                             !.updated_at = Some(now)]
      updated == IF m.trade_name = Undefined THEN renamed
                 ELSE [renamed EXCEPT !.trade_name = m.trade_name[1]]
  IN [st EXCEPT !.db.entity[e] = updated]

\* 2. the loop over mergedPeople: update a person of the kept entity, create any other
RECURSIVE UpsertPeople(_, _, _, _)
UpsertPeople(st, r, now, i) ==
  LET items == r.body.merged_entity.people.items
      keep == r.body.keep_entity_id
  IN
  IF st.err # "" \/ i > Len(items) THEN st
  ELSE
    LET person == items[i] IN
    IF person.people_id # 0 /\ person.people_id \in keptEntity(r).people
    THEN
      IF person.people_id \notin DOMAIN st.db.people
      THEN [st EXCEPT !.err = RecordNotFound]
      ELSE UpsertPeople(
             [st EXCEPT !.db.people[person.people_id] =
                [@ EXCEPT !.first_name = person.first_name,
                          !.entity_id = keep,
                          !.date_of_birth = sanitizeDate(person.date_of_birth),
                          !.updated_at = Some(now)]],
             r, now, i + 1)
    ELSE
      UpsertPeople(
        [st EXCEPT !.db.people =
           Append(@, [people_id |-> Len(@) + 1, entity_id |-> keep,
                      first_name |-> person.first_name, last_name |-> <<>>,
                      date_of_birth |-> sanitizeDate(person.date_of_birth),
                      deleted_at |-> Null, updated_at |-> Some(now)])],
        r, now, i + 1)

\* people.updateMany({where: {people_id: {in: peopleToDelete}}, data: {deleted_at: now}})
peopleToDeleteOfAll(r) == UNION {r.entities[e].people : e \in DOMAIN r.entities}

peopleToDelete(r) == UNION {r.entities[e].people : e \in removedEntities(r)}

SoftDeletePeopleNotInPayload(st, r, now) ==
  LET named == {p.people_id : p \in Range(r.body.merged_entity.people.items)} IN
  [st EXCEPT !.db.people =
     [i \in DOMAIN @ |->
        IF i \in peopleToDelete(r) \ named
        THEN [@[i] EXCEPT !.deleted_at = Some(now)]
        ELSE @[i]]]

SoftDeletePeople(st, r, now) ==
  [st EXCEPT !.db.people =
     [i \in DOMAIN @ |->
        IF i \in peopleToDelete(r) THEN [@[i] EXCEPT !.deleted_at = Some(now)] ELSE @[i]]]

\* 3. the loop over mergedAddresses; an update leaves is_primary as it is
RECURSIVE UpsertAddresses(_, _, _, _)
UpsertAddresses(st, r, now, i) ==
  LET items == r.body.merged_entity.address.items
      keep == r.body.keep_entity_id
  IN
  IF st.err # "" \/ i > Len(items) THEN st
  ELSE
    LET addr == items[i] IN
    IF addr.address_id # 0 /\ addr.address_id \in keptEntity(r).address
    THEN
      IF addr.address_id \notin DOMAIN st.db.address
      THEN [st EXCEPT !.err = RecordNotFound]
      ELSE UpsertAddresses(
             [st EXCEPT !.db.address[addr.address_id] =
                [@ EXCEPT !.street = addr.street,
                          !.entity_id = keep,
                          !.updated_at = Some(now)]],
             r, now, i + 1)
    ELSE
      UpsertAddresses(
        [st EXCEPT !.db.address =
           Append(@, [address_id |-> Len(@) + 1, entity_id |-> keep,
                      street |-> addr.street, is_primary |-> addr.is_primary,
                      deleted_at |-> Null, updated_at |-> Some(now)])],
        r, now, i + 1)

addressesToDelete(r) == UNION {r.entities[e].address : e \in removedEntities(r)}

SoftDeleteAddresses(st, r, now) ==
  [st EXCEPT !.db.address =
     [i \in DOMAIN @ |->
        IF i \in addressesToDelete(r) THEN [@[i] EXCEPT !.deleted_at = Some(now)] ELSE @[i]]]

\* entity_property.deleteMany({where: {entity_id: keep_entity_id}})
KeepKeptProperties(st, r) == st

DeleteKeptProperties(st, r) ==
  [st EXCEPT !.db.entity_property = {p \in @ : p.entity_id # r.body.keep_entity_id}]

\* 4. the loop over mergedProperties, after the kept entity's rows were deleted
RECURSIVE UpsertProperties(_, _, _)
UpsertProperties(st, r, i) ==
  LET items == r.body.merged_entity.entity_property.items
      keep == r.body.keep_entity_id
  IN
  IF st.err # "" \/ i > Len(items) THEN st
  ELSE
    LET prop == items[i] IN
    IF prop.entity_property_id # 0
       /\ prop.entity_property_id \in keptEntity(r).entity_property
    THEN
      IF \A p \in st.db.entity_property : p.entity_property_id # prop.entity_property_id
      THEN [st EXCEPT !.err = RecordNotFound]
      ELSE UpsertProperties(
             [st EXCEPT !.db.entity_property =
                {IF p.entity_property_id = prop.entity_property_id
                 THEN [entity_property_id |-> p.entity_property_id,
                       entity_id |-> keep,
                       property_id |-> prop.property_id,
                       property_value |-> prop.property_value,
                       is_primary |-> prop.is_primary]
                 ELSE p : p \in @}],
             r, i + 1)
    ELSE
      UpsertProperties(
        [st EXCEPT !.db.entity_property =
                     @ \cup {[entity_property_id |-> st.db.nextPropertyId,
                              entity_id |-> keep,
                              property_id |-> prop.property_id,
                              property_value |-> prop.property_value,
                              is_primary |-> prop.is_primary]},
                   !.db.nextPropertyId = @ + 1],
        r, i + 1)

propertiesToDelete(r) == UNION {r.entities[e].entity_property : e \in removedEntities(r)}

DeleteRemovedProperties(st, r) ==
  [st EXCEPT !.db.entity_property =
     {p \in @ : p.entity_property_id \notin propertiesToDelete(r)}]

\* 5. entity.updateMany({where: {entity_id: {in: remove_entity_ids}}, ...})
SoftDeleteEntitiesTimestampOnly(st, r, now) ==
  [st EXCEPT !.db.entity =
     [e \in DOMAIN @ |->
        IF e \in Range(r.body.remove_entity_ids.items)
        THEN [@[e] EXCEPT !.deleted_at = Some(now)]
        ELSE @[e]]]

SoftDeleteEntities(st, r, now) ==
  [st EXCEPT !.db.entity =
     [e \in DOMAIN @ |->
        IF e \in Range(r.body.remove_entity_ids.items)
        THEN [@[e] EXCEPT !.is_deleted = TRUE, !.deleted_at = Some(now)]
        ELSE @[e]]]

\* writeFile(`logs/${keptEntity.name}-${Date.now()}`, ...): creates or overwrites the file
AuditRecord(r, now) ==
  [action |-> "ENTITY_MERGE", entity_type |-> "entity",
   entity_id |-> r.body.keep_entity_id,
   old_value |-> Len(r.body.remove_entity_ids.items),
   new_value |-> <<Len(r.body.merged_entity.people.items),
                   Len(r.body.merged_entity.address.items)>>,
   note |-> "Applied client-submitted merge plan", created_at |-> now]

WriteAudit(st, r, now) ==
  LET file == <<keptEntity(r).name, now>> IN
  [st EXCEPT !.audit =
     {f \in @ : f.file # file} \cup {[file |-> file, content |-> AuditRecord(r, now)]}]

\* the statements of the transaction callback, in order
TxStep(st, r, now, k) ==
  CASE k = 1 -> UpdateKeptEntity(st, r, now)
    [] k = 2 -> UpsertPeople(st, r, now, 1)
    [] k = 3 -> SoftDeletePeople(st, r, now)
    [] k = 4 -> UpsertAddresses(st, r, now, 1)
    [] k = 5 -> SoftDeleteAddresses(st, r, now)
    [] k = 6 -> UpsertProperties(DeleteKeptProperties(st, r), r, 1)
    [] k = 7 -> DeleteRemovedProperties(st, r)
    [] k = 8 -> SoftDeleteEntities(st, r, now)
    [] k = 9 -> WriteAudit(st, r, now)
    [] OTHER -> st

Statements == 1 .. 9
\* where the environment may interrupt the transaction: before any statement, at the
\* commit (one past the last statement), or nowhere (0)
FailPoints == 0 .. 10

RECURSIVE RunFrom(_, _, _, _, _)
RunFrom(st, r, now, k, failAt) ==
  IF st.err # "" THEN st
  ELSE IF k = failAt THEN [st EXCEPT !.err = Interrupted]
  ELSE IF k \notin Statements THEN st
  ELSE RunFrom(TxStep(st, r, now, k), r, now, k + 1, failAt)

\* what $transaction leaves behind when the callback or the commit failed
RollbackNone(before, partial) == partial
Rollback(before, partial) == before

\* entitiesPrisma.$transaction(async (tx) => {...}): the tables and files afterwards
Transaction(d, a, r, now, failAt) ==
  LET st == RunFrom([db |-> d, audit |-> a, err |-> ""], r, now, 1, failAt) IN
  [db |-> IF st.err = "" THEN st.db ELSE Rollback(d, st.db),
   audit |-> st.audit,
   err |-> st.err]

\* ------------------------------------------------------------------ the controller
Idle ==
  [pc |-> "idle", body |-> Body(0, NotArray, NoMergedEntity), queried |-> FALSE,
   entities |-> NoSnapshot, resp |-> NoResponse]

Applied(r) == r.pc = "done" /\ r.resp.kind = "ok"
Failed(r) == r.pc = "done" /\ r.resp.cause # ""

\* a request arrives: destructuring, checks 1-4, then the findMany of check 5
Receive(r) ==
  /\ req[r].pc = "idle"
  /\ \E b \in Bodies(workload) : req' = [req EXCEPT ![r] = Validation(b, db)]
  /\ UNCHANGED <<db, audit, clock, workload, pass, listing, query>>

\* the transaction of a validated request, then the response
Transact(r) ==
  /\ req[r].pc = "validated"
  /\ \E failAt \in FailPoints :
       LET out == Transaction(db, audit, req[r], clock, failAt) IN
       /\ db' = out.db
       /\ audit' = out.audit
       /\ req' = [req EXCEPT
                    ![r].pc = "done",
                    ![r].resp =
                      IF out.err = ""
                      THEN Response("ok", "Duplicate merge applied successfully",
                                    req[r].body.remove_entity_ids.items, "")
                      ELSE BadRequest("Failed to apply merge: ", <<>>, out.err)]
  /\ UNCHANGED <<clock, workload, pass, listing, query>>

Tick ==
  /\ clock < MaxClock
  /\ clock' = clock + 1
  /\ UNCHANGED <<db, audit, req, workload, pass, listing, query>>

\* ------------------------------------------------------------------ the manual endpoint
\* applyEntitiesDuplicateMergeManuallyController, the handler of
\* POST /entities/resolve-duplicates/manual, statement by statement
allEntityIdsManually(b) == <<b.keep_entity_id>> \o b.remove_entity_ids.items

findManyManually(d, ids) ==
  [e \in {x \in DOMAIN d.entity : x \in Range(ids) /\ ~d.entity[x].is_deleted} |->
     [entity_id |-> e,
      name |-> d.entity[e].name,
      people |-> {i \in DOMAIN d.people : d.people[i].entity_id = e},
      address |-> {i \in DOMAIN d.address : d.address[i].entity_id = e},
      entity_property |->
        {p.entity_property_id : p \in {q \in d.entity_property : q.entity_id = e}}]]

\* the synchronous checks of the controller, in the order of the code; "" when all pass
SyncCheckManually(b) ==
  IF ~b.merged_entity.present THEN "TypeError: cannot destructure merged_entity"
  ELSE IF b.keep_entity_id = 0 THEN "Field 'keep_entity_id' is required"
  ELSE IF ~b.remove_entity_ids.isArray \/ Len(b.remove_entity_ids.items) = 0
    THEN "At least one entity must be in 'remove_entity_ids'"
  ELSE IF b.keep_entity_id \in Range(b.remove_entity_ids.items)
    THEN "'keep_entity_id' cannot be in 'remove_entity_ids'"
  ELSE IF ~b.merged_entity.people.isArray
    THEN "At least one person is required in 'merged_entity.people'"
  ELSE IF ~b.merged_entity.address.isArray THEN "'merged_entity.address' must be an array"
  ELSE IF ~b.merged_entity.entity_property.isArray
    THEN "'merged_entity.properties' must be an array"
  ELSE ""

\* the controller up to the start of the transaction: the request's next state
ValidationManually(b, d) ==
  LET check == SyncCheckManually(b) IN
  IF ~b.merged_entity.present
  THEN [pc |-> "done", body |-> b, queried |-> FALSE, entities |-> NoSnapshot,
        resp |-> Response("TypeError", check, <<>>, "")]
  ELSE IF check # ""
  THEN [pc |-> "done", body |-> b, queried |-> FALSE, entities |-> NoSnapshot,
        resp |-> BadRequest(check, <<>>, "")]
  ELSE
    LET ids == allEntityIdsManually(b)
        entities == findManyManually(d, ids)
        missing == SelectSeq(ids, LAMBDA id : id \notin DOMAIN entities)
    IN
    IF Cardinality(DOMAIN entities) # Len(ids)
    THEN [pc |-> "done", body |-> b, queried |-> TRUE, entities |-> NoSnapshot,
          resp |-> BadRequest("Invalid entity IDs: not found or already deleted", missing, "")]
    ELSE IF b.keep_entity_id \notin DOMAIN entities
    THEN [pc |-> "done", body |-> b, queried |-> TRUE, entities |-> NoSnapshot,
          resp |-> BadRequest("Keep entity not found", <<>>, "")]
    ELSE [pc |-> "validated", body |-> b, queried |-> TRUE, entities |-> entities,
          resp |-> NoResponse]

keptEntityManually(r) == r.entities[r.body.keep_entity_id]
removedEntitiesManually(r) ==
  {e \in DOMAIN r.entities : e \in Range(r.body.remove_entity_ids.items)}

\* 1. tx.entity.update: name ?? keptEntityManually.name, trade_name, updated_at
UpdateKeptEntityManually(st, r, now) ==
  LET b == r.body
      m == b.merged_entity
      e == b.keep_entity_id
      row == st.db.entity[e]
      renamed == [row EXCEPT !.name = IF m.name = Undefined THEN keptEntityManually(r).name
                                                             ELSE m.name[1],
                             !.updated_at = Some(now)]
      updated == IF m.trade_name = Undefined THEN renamed
                 ELSE [renamed EXCEPT !.trade_name = m.trade_name[1]]
  IN [st EXCEPT !.db.entity[e] = updated]

\* 2. the loop over mergedPeople: update a person of the kept entity, create any other
RECURSIVE UpsertPeopleManually(_, _, _, _)
UpsertPeopleManually(st, r, now, i) ==
  LET items == r.body.merged_entity.people.items
      keep == r.body.keep_entity_id
  IN
  IF st.err # "" \/ i > Len(items) THEN st
  ELSE
    LET person == items[i] IN
    IF person.people_id # 0 /\ person.people_id \in keptEntityManually(r).people
    THEN
      IF person.people_id \notin DOMAIN st.db.people
      THEN [st EXCEPT !.err = RecordNotFound]
      ELSE UpsertPeopleManually(
             [st EXCEPT !.db.people[person.people_id] =
                [@ EXCEPT !.first_name = person.first_name,
                          !.entity_id = keep,
                          !.date_of_birth = sanitizeDate(person.date_of_birth),
                          !.updated_at = Some(now)]],
             r, now, i + 1)
    ELSE
      UpsertPeopleManually(
        [st EXCEPT !.db.people =
           Append(@, [people_id |-> Len(@) + 1, entity_id |-> keep,
                      first_name |-> person.first_name, last_name |-> <<>>,
                      date_of_birth |-> sanitizeDate(person.date_of_birth),
                      deleted_at |-> Null, updated_at |-> Some(now)])],
        r, now, i + 1)

\* people.updateMany({where: {people_id: {in: peopleToDeleteManually}}, data: {deleted_at: now}})
peopleToDeleteManually(r) == UNION {r.entities[e].people : e \in removedEntitiesManually(r)}

SoftDeletePeopleManually(st, r, now) ==
  [st EXCEPT !.db.people =
     [i \in DOMAIN @ |->
        IF i \in peopleToDeleteManually(r) THEN [@[i] EXCEPT !.deleted_at = Some(now)] ELSE @[i]]]

\* 3. the loop over mergedAddresses; an update leaves is_primary as it is
RECURSIVE UpsertAddressesManually(_, _, _, _)
UpsertAddressesManually(st, r, now, i) ==
  LET items == r.body.merged_entity.address.items
      keep == r.body.keep_entity_id
  IN
  IF st.err # "" \/ i > Len(items) THEN st
  ELSE
    LET addr == items[i] IN
    IF addr.address_id # 0 /\ addr.address_id \in keptEntityManually(r).address
    THEN
      IF addr.address_id \notin DOMAIN st.db.address
      THEN [st EXCEPT !.err = RecordNotFound]
      ELSE UpsertAddressesManually(
             [st EXCEPT !.db.address[addr.address_id] =
                [@ EXCEPT !.street = addr.street,
                          !.entity_id = keep,
                          !.updated_at = Some(now)]],
             r, now, i + 1)
    ELSE
      UpsertAddressesManually(
        [st EXCEPT !.db.address =
           Append(@, [address_id |-> Len(@) + 1, entity_id |-> keep,
                      street |-> addr.street, is_primary |-> addr.is_primary,
                      deleted_at |-> Null, updated_at |-> Some(now)])],
        r, now, i + 1)

addressesToDeleteManually(r) == UNION {r.entities[e].address : e \in removedEntitiesManually(r)}

SoftDeleteAddressesManually(st, r, now) ==
  [st EXCEPT !.db.address =
     [i \in DOMAIN @ |->
        IF i \in addressesToDeleteManually(r) THEN [@[i] EXCEPT !.deleted_at = Some(now)] ELSE @[i]]]

\* entity_property.deleteMany({where: {entity_id: keep_entity_id}})
DeleteKeptPropertiesManually(st, r) ==
  [st EXCEPT !.db.entity_property = {p \in @ : p.entity_id # r.body.keep_entity_id}]

\* 4. the loop over mergedProperties, after the kept entity's rows were deleted
RECURSIVE UpsertPropertiesManually(_, _, _)
UpsertPropertiesManually(st, r, i) ==
  LET items == r.body.merged_entity.entity_property.items
      keep == r.body.keep_entity_id
  IN
  IF st.err # "" \/ i > Len(items) THEN st
  ELSE
    LET prop == items[i] IN
    IF prop.entity_property_id # 0
       /\ prop.entity_property_id \in keptEntityManually(r).entity_property
    THEN
      IF \A p \in st.db.entity_property : p.entity_property_id # prop.entity_property_id
      THEN [st EXCEPT !.err = RecordNotFound]
      ELSE UpsertPropertiesManually(
             [st EXCEPT !.db.entity_property =
                {IF p.entity_property_id = prop.entity_property_id
                 THEN [entity_property_id |-> p.entity_property_id,
                       entity_id |-> keep,
                       property_id |-> prop.property_id,
                       property_value |-> prop.property_value,
                       is_primary |-> prop.is_primary]
                 ELSE p : p \in @}],
             r, i + 1)
    ELSE
      UpsertPropertiesManually(
        [st EXCEPT !.db.entity_property =
                     @ \cup {[entity_property_id |-> st.db.nextPropertyId,
                              entity_id |-> keep,
                              property_id |-> prop.property_id,
                              property_value |-> prop.property_value,
                              is_primary |-> prop.is_primary]},
                   !.db.nextPropertyId = @ + 1],
        r, i + 1)

propertiesToDeleteManually(r) == UNION {r.entities[e].entity_property : e \in removedEntitiesManually(r)}

DeleteRemovedPropertiesManually(st, r) ==
  [st EXCEPT !.db.entity_property =
     {p \in @ : p.entity_property_id \notin propertiesToDeleteManually(r)}]

\* 5. entity.updateMany({where: {entity_id: {in: remove_entity_ids}}, ...})
KeepEntitiesManually(st, r, now) == st

SoftDeleteEntitiesManually(st, r, now) ==
  [st EXCEPT !.db.entity =
     [e \in DOMAIN @ |->
        IF e \in Range(r.body.remove_entity_ids.items)
        THEN [@[e] EXCEPT !.is_deleted = TRUE, !.deleted_at = Some(now)]
        ELSE @[e]]]

\* writeFile(`logs/${keptEntity.name}-${Date.now()}`, ...): creates or overwrites the file
AuditRecordManually(r, now) ==
  [action |-> "ENTITY_MERGE", entity_type |-> "entity",
   entity_id |-> r.body.keep_entity_id,
   old_value |-> Len(r.body.remove_entity_ids.items),
   new_value |-> <<Len(r.body.merged_entity.people.items),
                   Len(r.body.merged_entity.address.items)>>,
   note |-> "Applied client-submitted merge plan", created_at |-> now]

WriteAuditManually(st, r, now) ==
  LET file == <<keptEntityManually(r).name, now>> IN
  [st EXCEPT !.audit =
     {f \in @ : f.file # file} \cup {[file |-> file, content |-> AuditRecordManually(r, now)]}]

\* the statements of the transaction callback, in order
TxStepManually(st, r, now, k) ==
  CASE k = 1 -> UpdateKeptEntityManually(st, r, now)
    [] k = 2 -> UpsertPeopleManually(st, r, now, 1)
    [] k = 3 -> SoftDeletePeopleManually(st, r, now)
    [] k = 4 -> UpsertAddressesManually(st, r, now, 1)
    [] k = 5 -> SoftDeleteAddressesManually(st, r, now)
    [] k = 6 -> UpsertPropertiesManually(DeleteKeptPropertiesManually(st, r), r, 1)
    [] k = 7 -> DeleteRemovedPropertiesManually(st, r)
    [] k = 8 -> SoftDeleteEntitiesManually(st, r, now)
    [] k = 9 -> WriteAuditManually(st, r, now)
    [] OTHER -> st

RECURSIVE RunFromManually(_, _, _, _, _)
RunFromManually(st, r, now, k, failAt) ==
  IF st.err # "" THEN st
  ELSE IF k = failAt THEN [st EXCEPT !.err = Interrupted]
  ELSE IF k \notin Statements THEN st
  ELSE RunFromManually(TxStepManually(st, r, now, k), r, now, k + 1, failAt)

\* entitiesPrisma.$transaction(async (tx) => {...}): the tables and files afterwards
TransactionManually(d, a, r, now, failAt) ==
  LET st == RunFromManually([db |-> d, audit |-> a, err |-> ""], r, now, 1, failAt) IN
  [db |-> IF st.err = "" THEN st.db ELSE Rollback(d, st.db),
   audit |-> st.audit,
   err |-> st.err]

\* a request arrives at resolve-duplicates/manual
ReceiveManually(r) ==
  /\ req[r].pc = "idle"
  /\ \E b \in Bodies(workload) : req' = [req EXCEPT ![r] = ValidationManually(b, db)]
  /\ UNCHANGED <<db, audit, clock, workload, pass, listing, query>>

\* its transaction, then the response
TransactManually(r) ==
  /\ req[r].pc = "validated"
  /\ \E failAt \in FailPoints :
       LET out == TransactionManually(db, audit, req[r], clock, failAt) IN
       /\ db' = out.db
       /\ audit' = out.audit
       /\ req' = [req EXCEPT
                    ![r].pc = "done",
                    ![r].resp =
                      IF out.err = ""
                      THEN Response("ok", "Duplicate merge applied successfully",
                                    req[r].body.remove_entity_ids.items, "")
                      ELSE BadRequest("Failed to apply merge: ", <<>>, out.err)]
  /\ UNCHANGED <<clock, workload, pass, listing, query>>

\* ================================================================== Part II: Planner
\* ------------------------------------------------------------------ bounds
MaxPeople == 3
MaxProps == 3

\* ------------------------------------------------------------------ text, continued
\* s.split(/\s+/) of a trimmed, non-empty text: the maximal runs of non-blank characters
RECURSIVE SplitWs(_, _, _)
SplitWs(s, cur, acc) ==
  IF s = <<>> THEN (IF cur = <<>> THEN acc ELSE Append(acc, cur))
  ELSE IF Head(s) = " "
    THEN SplitWs(Tail(s), <<>>, IF cur = <<>> THEN acc ELSE Append(acc, cur))
    ELSE SplitWs(Tail(s), Append(cur, Head(s)), acc)

\* parts.join(" ")
RECURSIVE JoinSp(_)
JoinSp(parts) ==
  IF parts = <<>> THEN <<>>
  ELSE IF Len(parts) = 1 THEN parts[1]
  ELSE parts[1] \o <<" ">> \o JoinSp(Tail(parts))

\* the elements of a finite set of integers, ascending
RECURSIVE Ascending(_)
Ascending(S) ==
  IF S = {} THEN <<>>
  ELSE LET m == CHOOSE x \in S : \A y \in S : x <= y IN <<m>> \o Ascending(S \ {m})

\* arr.flatMap(f) for a sequence of sequences
RECURSIVE Flatten(_)
Flatten(ss) == IF ss = <<>> THEN <<>> ELSE Head(ss) \o Flatten(Tail(ss))

\* ------------------------------------------------------------------ the stores analysed
PersonChoices ==
  [first_name : {<<"j">>, <<"J">>}, last_name : {<<>>, <<"a">>}, entity_id : {1, 2}]

PropertyChoices ==
  {<<1, <<"a">>, "No">>, <<1, <<" ", "A">>, "Yes">>, <<2, <<"a">>, "No">>, <<1, <<>>, "Yes">>}

PlanPeople(pp) ==
  [i \in DOMAIN pp |->
     [people_id |-> i, entity_id |-> pp[i].entity_id, first_name |-> pp[i].first_name,
      last_name |-> pp[i].last_name, date_of_birth |-> Null, deleted_at |-> Null,
      updated_at |-> Null]]

\* pr: a sequence of <<owner, <<property_id, value, is_primary>>>>
PlanProperties(pr) ==
  {[entity_property_id |-> i, entity_id |-> pr[i][1], property_id |-> pr[i][2][1],
    property_value |-> pr[i][2][2], is_primary |-> pr[i][2][3]] : i \in DOMAIN pr}

\* one address per entity, numbered independently of the entities: entity e owns the
\* address e - 1, entity 1 the last one
PlanAddress ==
  [i \in EntityIds |->
     [address_id |-> i, entity_id |-> (i % NumEntities) + 1, street |-> <<"s">>,
      is_primary |-> "Yes", deleted_at |-> Null, updated_at |-> Null]]

PlanDb(pp, pr) ==
  [entity |-> InitEntity, people |-> PlanPeople(pp), address |-> PlanAddress,
   entity_property |-> PlanProperties(pr), nextPropertyId |-> Len(pr) + 1]

\* three people of one name, spread over two entities
SameNamePeople ==
  <<[first_name |-> <<"j">>, last_name |-> <<>>, entity_id |-> 1],
    [first_name |-> <<"J">>, last_name |-> <<>>, entity_id |-> 2],
    [first_name |-> <<"j">>, last_name |-> <<>>, entity_id |-> 2]>>

\* one primary and one secondary property per entity, equal up to case and blanks
TwoProperties == <<<<1, <<1, <<"a">>, "No">>>>, <<2, <<1, <<" ", "A">>, "Yes">>>>>>

\* any people with fixed properties, and fixed people with any properties
PlanStores ==
  {PlanDb(pp, TwoProperties) :
     pp \in {f \in [1 .. MaxPeople -> PersonChoices] : f[1].entity_id = 1}}
  \cup {PlanDb(SameNamePeople, pr) : pr \in SeqsUpTo({1, 2} \X PropertyChoices, MaxProps)}

Queries == {<<"J">>, <<"j", " ", "a">>, <<"p">>}

\* ------------------------------------------------------------------ the analysis pass
\* people.findMany({where: {first_name: {in: [firstName, rawName]},
\*                          ...(lastName && {last_name: {in: [lastName, ""]}})},
\*                  include: {entity: {include: {address, entity_property...}}}})
FetchPeople(d, rawName) ==
  LET nameParts == SplitWs(trim(rawName), <<>>, <<>>)
      firstName == toLowerCase(nameParts[1])
      lastName == IF Len(nameParts) > 1 THEN toLowerCase(JoinSp(Tail(nameParts))) ELSE <<>>
      matches(p) ==
        /\ p.first_name \in {firstName, rawName}
        /\ lastName # <<>> => p.last_name \in {lastName, <<>>}
      ids == Ascending({i \in DOMAIN d.people : matches(d.people[i])})
      entityOf(e) ==
        [entity_id |-> e,
         is_deleted |-> d.entity[e].is_deleted,
         address |-> Ascending({i \in DOMAIN d.address : d.address[i].entity_id = e}),
         entity_property |->
           LET rows == {q \in d.entity_property : q.entity_id = e}
               byId(i) == CHOOSE q \in rows : q.entity_property_id = i
           IN [k \in 1 .. Cardinality(rows) |->
                 byId(Ascending({q.entity_property_id : q \in rows})[k])]]
  IN [k \in 1 .. Len(ids) |->
        [people_id |-> ids[k],
         first_name |-> d.people[ids[k]].first_name,
         last_name |-> d.people[ids[k]].last_name,
         deleted_at |-> d.people[ids[k]].deleted_at,
         entity |-> entityOf(d.people[ids[k]].entity_id)]]

\* [fn, ln].filter(Boolean).join(" ") of the trimmed, lowercased names
FullName(p) ==
  JoinSp(SelectSeq(<<toLowerCase(trim(p.first_name)), toLowerCase(trim(p.last_name))>>,
                   LAMBDA t : t # <<>>))

\* the Map nameGroups, in insertion order: a sequence of [key, items]
RECURSIVE GroupByName(_, _, _)
GroupByName(people, k, groups) ==
  IF k > Len(people) THEN groups
  ELSE
    LET key == FullName(people[k]) IN
    IF key = <<>> THEN GroupByName(people, k + 1, groups)
    ELSE IF \E g \in DOMAIN groups : groups[g].key = key
    THEN LET g == CHOOSE h \in DOMAIN groups : groups[h].key = key IN
         GroupByName(people, k + 1, [groups EXCEPT ![g].items = Append(@, people[k])])
    ELSE GroupByName(people, k + 1, Append(groups, [key |-> key, items |-> <<people[k]>>]))

\* the duplicates handed to the oracle with group[i] as primary
DuplicatesIgnoringSeen(group, i, seen) ==
  SelectSeq(group, LAMBDA p : p.people_id # group[i].people_id)

Duplicates(group, i, seen) ==
  SelectSeq(group, LAMBDA p : p.people_id # group[i].people_id /\ p.people_id \notin seen)

\* the next position of the two nested loops at which the oracle is called
RECURSIVE NextCall(_, _, _, _)
NextCall(groups, seen, g, i) ==
  IF g > Len(groups) THEN <<g, 1>>
  ELSE IF Len(groups[g].items) < 2 \/ i > Len(groups[g].items)
    THEN NextCall(groups, seen, g + 1, 1)
  ELSE IF groups[g].items[i].people_id \in seen
          \/ Duplicates(groups[g].items, i, seen) = <<>>
    THEN NextCall(groups, seen, g, i + 1)
  ELSE <<g, i>>

\* the loop over allProps that fills propMap; acc holds the map's values in insertion order
RECURSIVE MergePropertiesFirstOnly(_, _, _, _)
MergePropertiesFirstOnly(allProps, k, keptEntityId, acc) ==
  IF k > Len(allProps) THEN acc
  ELSE
    LET prop == allProps[k]
        key == <<prop.property_id, toLowerCase(trim(prop.property_value))>>
    IN
    IF prop.property_value = <<>> THEN MergePropertiesFirstOnly(allProps, k + 1, keptEntityId, acc)
    ELSE IF \A j \in DOMAIN acc : acc[j].key # key
    THEN MergePropertiesFirstOnly(allProps, k + 1, keptEntityId,
           Append(acc, [key |-> key, value |-> [prop EXCEPT !.entity_id = keptEntityId]]))
    ELSE MergePropertiesFirstOnly(allProps, k + 1, keptEntityId, acc)

RECURSIVE MergeProperties(_, _, _, _)
MergeProperties(allProps, k, keptEntityId, acc) ==
  IF k > Len(allProps) THEN acc
  ELSE
    LET prop == allProps[k]
        key == <<prop.property_id, toLowerCase(trim(prop.property_value))>>
    IN
    IF prop.property_value = <<>> THEN MergeProperties(allProps, k + 1, keptEntityId, acc)
    ELSE IF \A j \in DOMAIN acc : acc[j].key # key
    THEN MergeProperties(allProps, k + 1, keptEntityId,
           Append(acc, [key |-> key, value |-> [prop EXCEPT !.entity_id = keptEntityId]]))
    ELSE
      LET j == CHOOSE h \in DOMAIN acc : acc[h].key = key IN
      MergeProperties(allProps, k + 1, keptEntityId,
        IF prop.is_primary = "Yes" THEN [acc EXCEPT ![j].value.is_primary = "Yes"] ELSE acc)

\* allProps: the kept record's entity properties, then each removed record's
AllProps(keptRecord, removedRecords) ==
  keptRecord.entity.entity_property
    \o Flatten([k \in DOMAIN removedRecords |-> removedRecords[k].entity.entity_property])

\* Array.from(propMap.values())
MergedProperties(keptRecord, removedRecords) ==
  LET acc == MergeProperties(AllProps(keptRecord, removedRecords), 1,
                             keptRecord.entity.entity_id, <<>>)
  IN [k \in DOMAIN acc |-> acc[k].value]

\* duplicates.filter((p) => removedIds.includes(p.people_id))
RemovedRecords(person, duplicates, removedIds) ==
  SelectSeq(duplicates, LAMBDA p : p.people_id \in removedIds)

\* tables_to_cleanup, without the keys whose list is empty
TablesToCleanup(removedRecords) ==
  LET deleted_people_ids == [k \in DOMAIN removedRecords |-> removedRecords[k].people_id]
      deleted_entity_ids == [k \in DOMAIN removedRecords |-> removedRecords[k].entity.entity_id]
      property_ids ==
        Flatten([k \in DOMAIN removedRecords |->
                   [j \in DOMAIN removedRecords[k].entity.entity_property |->
                      removedRecords[k].entity.entity_property[j].entity_property_id]])
      all == {[table |-> "people", ids |-> deleted_people_ids],
              [table |-> "entity", ids |-> deleted_entity_ids],
              [table |-> "entity_property", ids |-> property_ids],
              [table |-> "address", ids |-> deleted_entity_ids]}
  IN {t \in all : t.ids # <<>>}

\* the element pushed to grouped for one oracle decision
Proposal(aiDecision, keptRecord, removedRecords) ==
  [aiDecision |-> aiDecision,
   mergedProperties |-> MergedProperties(keptRecord, removedRecords),
   deletionPlan |->
     [retained_entity_id |-> keptRecord.entity.entity_id,
      retained_people_id |-> keptRecord.people_id,
      deleted_people_ids |-> [k \in DOMAIN removedRecords |-> removedRecords[k].people_id],
      deleted_entity_ids |->
        [k \in DOMAIN removedRecords |-> removedRecords[k].entity.entity_id],
      tables_to_cleanup |-> TablesToCleanup(removedRecords)]]

\* given: for each element of grouped, the ids that were handed to the oracle
PassIdle ==
  [pc |-> "idle", people |-> <<>>, nameGroups |-> <<>>, at |-> <<1, 1>>, seen |-> {},
   grouped |-> <<>>, given |-> <<>>, success |-> FALSE]

\* the request arrives: fetch, group, and run the loops up to the first oracle call
Analyze ==
  /\ pass.pc = "idle"
  /\ \E rawName \in Queries :
       LET people == FetchPeople(db, rawName)
           groups == GroupByName(people, 1, <<>>)
       IN pass' = IF people = <<>>
                  THEN [PassIdle EXCEPT !.pc = "done", !.success = TRUE]
                  ELSE [PassIdle EXCEPT !.pc = "loop", !.people = people,
                                        !.nameGroups = groups,
                                        !.at = NextCall(groups, {}, 1, 1)]
  /\ UNCHANGED <<db, audit, clock, req, workload, listing, query>>

AtCall == pass.pc = "loop" /\ pass.at[1] <= Len(pass.nameGroups)

\* the ids the oracle is given at the current call: the primary, then the duplicates
Supplied ==
  LET group == pass.nameGroups[pass.at[1]].items IN
  <<group[pass.at[2]]>> \o Duplicates(group, pass.at[2], pass.seen)

\* the oracle answers {keep, remove}: a proposal is pushed (or, when keep names none of
\* the records given, the item is skipped) and the loops run on to the next call
Decide ==
  /\ AtCall
  /\ LET ids == {Supplied[k].people_id : k \in DOMAIN Supplied} IN
     \E keptId \in ids \cup {0}, removedIds \in SUBSET ids :
       LET aiDecision == [keep |-> keptId, remove |-> removedIds]
           person == Head(Supplied)
           duplicates == Tail(Supplied)
           found == SelectSeq(Supplied, LAMBDA p : p.people_id = keptId)
           removedRecords == RemovedRecords(person, duplicates, removedIds)
       IN
       IF found = <<>>
       THEN pass' = [pass EXCEPT
                       !.at = NextCall(pass.nameGroups, pass.seen, pass.at[1], pass.at[2] + 1)]
       ELSE
         LET keptRecord == Head(found)
             seen == pass.seen \cup {keptRecord.people_id}
                       \cup {removedRecords[k].people_id : k \in DOMAIN removedRecords}
         IN pass' = [pass EXCEPT
                       !.grouped = Append(@, Proposal(aiDecision, keptRecord, removedRecords)),
                       !.given = Append(@, ids),
                       !.seen = seen,
                       !.at = NextCall(pass.nameGroups, seen, pass.at[1], pass.at[2] + 1)]
  /\ UNCHANGED <<db, audit, clock, req, workload, listing, query>>

\* aiService.call rejects: the handler throws and the error middleware answers
OracleFailsKeepingProposals ==
  /\ AtCall
  /\ pass' = [pass EXCEPT !.pc = "done", !.success = FALSE]
  /\ UNCHANGED <<db, audit, clock, req, workload, listing, query>>

OracleFails ==
  /\ AtCall
  /\ pass' = [pass EXCEPT !.pc = "done", !.success = FALSE, !.grouped = <<>>]
  /\ UNCHANGED <<db, audit, clock, req, workload, listing, query>>

\* the loops are over: the response carries grouped
Respond ==
  /\ pass.pc = "loop"
  /\ ~AtCall
  /\ pass' = [pass EXCEPT !.pc = "done", !.success = TRUE]
  /\ UNCHANGED <<db, audit, clock, req, workload, listing, query>>

\* ================================================================== Part III: listings
\* getDuplicateEntitiesByFullNameController and getDuplicateEntitiesByNameWithTypeController
DefaultPage == 1
DefaultLimit == 20
ENTITY_TYPES == {1, 2}

Lowered == <<"a", "c">>
\* entity.name || "": a null name and an empty name are the same to the listings
NoName == <<>>

\* ------------------------------------------------------------------ the stores listed
ListedNames ==
  {n \in [ListedIds -> {Acme, Lowered, Beta, NoName}] :
     /\ n[1] = Acme
     /\ n[2] \in {Acme, Lowered}
     /\ n[3] \in {Beta, NoName}
     /\ \A e \in ListedIds : e > 3 => n[e] \in {Acme, Beta}}

ListedTypes == {t \in [ListedIds -> ENTITY_TYPES] : \A e \in ListedIds : e <= 3 => t[e] = 2}

ListingEntity(names, types) ==
  [e \in ListedIds |->
     [entity_id |-> e, name |-> names[e], trade_name |-> Null, type |-> types[e],
      is_deleted |-> FALSE, deleted_at |-> Null, updated_at |-> Null]]

ListingStores ==
  {[entity |-> ListingEntity(n, t), people |-> <<>>, address |-> <<>>,
    entity_property |-> {}, nextPropertyId |-> 1] : n \in ListedNames, t \in ListedTypes}

\* ------------------------------------------------------------------ query parameters
TypeParams == {Undefined, Some(1), Some(2), Some(3)}
PageParams == {Undefined} \cup {Some(p) : p \in 0 .. MaxPage}
LimitParams == {Undefined} \cup {Some(l) : l \in 0 .. MaxLimit}

\* z.coerce.number().min(1).default(dflt) on one query parameter
CoerceMin1(param, dflt) ==
  IF param = Undefined THEN [success |-> TRUE, value |-> dflt]
  ELSE [success |-> param[1] >= 1, value |-> param[1]]

paginationSchema(page, limit) ==
  LET p == CoerceMin1(page, DefaultPage)
      l == CoerceMin1(limit, DefaultLimit)
  IN [success |-> p.success /\ l.success, page |-> p.value, limit |-> l.value]

\* ------------------------------------------------------------------ the listings
\* the orders in which the database may return the rows of S (the queries have no orderBy)
RECURSIVE Orders(_)
Orders(S) ==
  IF S = {} THEN {<<>>} ELSE UNION {{<<x>> \o o : o \in Orders(S \ {x})} : x \in S}

\* entity.findMany({where: {type: 2, is_deleted: false}, select: {entity_id, name}})
FindEntitiesOfType2(d) ==
  {e \in DOMAIN d.entity : d.entity[e].type = 2 /\ ~d.entity[e].is_deleted}

\* entity.findMany({where: {type: parsedType, is_deleted: false, deleted_at: {equals: null}}})
FindEntitiesByTypeAnyState(d, parsedType) ==
  {e \in DOMAIN d.entity : d.entity[e].type = parsedType}

FindEntitiesByType(d, parsedType) ==
  {e \in DOMAIN d.entity :
     d.entity[e].type = parsedType /\ ~d.entity[e].is_deleted /\ d.entity[e].deleted_at = Null}

SelectIdAndName(d, o) == [k \in DOMAIN o |-> [entity_id |-> o[k], name |-> d.entity[o[k]].name]]

\* the Map nameGroups of the listings, keyed by entity.name as stored
RECURSIVE GroupEntitiesByRawName(_, _, _)
GroupEntitiesByRawName(entities, k, groups) ==
  IF k > Len(entities) THEN groups
  ELSE
    LET name == entities[k].name IN
    IF name = NoName THEN GroupEntitiesByRawName(entities, k + 1, groups)
    ELSE IF \E g \in DOMAIN groups : groups[g].key = name
    THEN LET g == CHOOSE h \in DOMAIN groups : groups[h].key = name IN
         GroupEntitiesByRawName(entities, k + 1,
                                [groups EXCEPT ![g].items = Append(@, entities[k])])
    ELSE GroupEntitiesByRawName(entities, k + 1,
                                Append(groups, [key |-> name, items |-> <<entities[k]>>]))

\* the loop that keeps the groups with group.length >= 2
AtLeastTwo(groups) == SelectSeq(groups, LAMBDA g : Len(g.items) >= 2)

\* (page - 1) * limit
OffsetFromZero(page, limit) == page * limit
Offset(page, limit) == (page - 1) * limit

\* Array.prototype.slice(start, end) for 0 <= start <= end
Slice(list, start, end) ==
  SubSeq(list, start + 1, IF end < Len(list) THEN end ELSE Len(list))

NoPagination == [limit |-> 0, page |-> 0, offset |-> 0, total |-> 0]

\* emitted: the groups of two or more the response was computed from, each with its key
\* and the set of its members
ListingResponse(endpoint, kind, type, groups, data, pagination) ==
  [endpoint |-> endpoint, kind |-> kind, type |-> type,
   emitted |-> [k \in DOMAIN groups |->
                  [key |-> groups[k].key, members |-> Range(groups[k].items)]],
   data |-> data, pagination |-> pagination]

NoListing == ListingResponse("none", "none", 0, <<>>, <<>>, NoPagination)

ListByFullName ==
  /\ \E o \in Orders(FindEntitiesOfType2(db)) :
       LET nameGroups == GroupEntitiesByRawName(SelectIdAndName(db, o), 1, <<>>)
           groups == AtLeastTwo(nameGroups)
           duplicateGroups == [k \in DOMAIN groups |-> groups[k].key]
       IN listing' = ListingResponse("by-name", "ok", 2, groups, duplicateGroups, NoPagination)
  /\ UNCHANGED <<db, audit, clock, req, workload, pass, query>>

\* the responses of the by-type listing to one request, given the order o of the rows
ByTypeResponse(d, type, page, limit, o) ==
  LET pagination == paginationSchema(page, limit) IN
  IF ~pagination.success
  THEN ListingResponse("by-type", "RouteError.BadRequest", 0, <<>>, <<>>, NoPagination)
  ELSE IF type = Undefined \/ type[1] \notin ENTITY_TYPES
  THEN ListingResponse("by-type", "RouteError.BadRequest", 0, <<>>, <<>>, NoPagination)
  ELSE
    LET offset == Offset(pagination.page, pagination.limit)
        nameGroups == GroupEntitiesByRawName(SelectIdAndName(d, o), 1, <<>>)
        groups == AtLeastTwo(nameGroups)
        duplicateGroups ==
          [k \in DOMAIN groups |->
             [name |-> groups[k].key, duplicateCount |-> Len(groups[k].items)]]
        paginatedResult == Slice(duplicateGroups, offset, offset + pagination.limit)
    IN ListingResponse("by-type", "ok", type[1], groups, paginatedResult,
                       [limit |-> pagination.limit, page |-> pagination.page,
                        offset |-> offset, total |-> Len(duplicateGroups)])

ListByNameWithType ==
  /\ \E type \in TypeParams :
       \E o \in (IF type = Undefined THEN {<<>>} ELSE Orders(FindEntitiesByType(db, type[1]))) :
         \E page \in PageParams, limit \in LimitParams :
           listing' = ByTypeResponse(db, type, page, limit, o)
  /\ UNCHANGED <<db, audit, clock, req, workload, pass, query>>

\* ================================================================== specifications
\* ================================================================== Part IV: questions
\* naturalLanguageQueryController, the handler of the natural-language query endpoint
MAX_CORRECTION_ATTEMPTS == 2
MaxRowLimit == 100
MaxSql == 2

\* req.body.question: empty, blank, a question with trailing blank
Questions == {<<>>, <<" ">>, <<"q", " ">>}
\* req.body.limit: absent (falsy), below the cap, above the cap
Limits == {0, 5, 200}
\* routingService.routeQuestion
RoutingDecisions == [target : {"general", "unknown", "entities", "dms"}, markdownResponse : BOOLEAN]
\* aiService.generateQueryPlan
QueryPlans == [sql : 1 .. MaxSql, allowsLimit : BOOLEAN, successStatus : BOOLEAN]
NoPlan == [sql |-> 0, allowsLimit |-> FALSE, successStatus |-> FALSE]
\* what one pass through the try block can end in: rows and a summary, $queryRawUnsafe
\* rejecting, generateSummary rejecting after the rows came back
Outcomes == {"rows", "database error", "summary error"}

QueryResponse(success, statusCode, message) ==
  [success |-> success, statusCode |-> statusCode, message |-> message]

\* a thrown error reaches expressRouteErrorHandlerMiddleware
QueryError(statusCode, message) == QueryResponse(FALSE, statusCode, message)

\* ran: the statements handed to $queryRawUnsafe, each with what the try block ended in;
\* corrections: the calls of generateQueryPlan with the error log
QueryIdle ==
  [pc |-> "idle", cleanedQuestion |-> <<>>, limit |-> 0, target |-> "", queryPlan |-> NoPlan,
   finalSql |-> 0, attempts |-> 0, errorFeedbackLog |-> <<>>, ran |-> <<>>,
   corrections |-> 0, responses |-> <<>>]

\* the handler up to the loop, for a routing decision and a first plan
Routed(question, limit, decision, plan) ==
  IF trim(question) = <<>>
  THEN [QueryIdle EXCEPT !.pc = "done",
          !.responses = <<QueryError(400, "A valid 'question' string is required")>>]
  ELSE
    LET asked == [QueryIdle EXCEPT !.cleanedQuestion = trim(question), !.limit = limit,
                                   !.target = decision.target]
    IN
    IF decision.target = "general" /\ decision.markdownResponse
    THEN [asked EXCEPT !.pc = "done",
            !.responses = <<QueryResponse(TRUE, 200, "General question answered")>>]
    ELSE IF decision.target = "general"
    THEN [asked EXCEPT !.pc = "done",
            !.responses =
              <<QueryError(400, "General question detected but no response generated.")>>]
    ELSE IF decision.target = "unknown"
    THEN [asked EXCEPT !.pc = "done",
            !.responses = <<QueryError(400, "Cannot determine which system contains this data.")>>]
    ELSE [asked EXCEPT !.pc = "execute", !.queryPlan = plan, !.finalSql = plan.sql]

\* the request arrives; routeQuestion or the first generateQueryPlan may reject
Ask ==
  /\ query.pc = "idle"
  /\ \E question \in Questions, limit \in Limits, decision \in RoutingDecisions,
        plan \in QueryPlans, answers \in BOOLEAN :
       query' = IF answers \/ trim(question) = <<>>
                THEN Routed(question, limit, decision, plan)
                ELSE [QueryIdle EXCEPT !.pc = "done", !.cleanedQuestion = trim(question),
                                       !.limit = limit,
                                       !.responses = <<QueryError(500, "service error")>>]
  /\ UNCHANGED <<db, audit, clock, req, workload, pass, listing>>

Min(a, b) == IF a < b THEN a ELSE b

\* finalSql with LIMIT ? replaced when the plan allows a limit and the body carries one
SqlToRun(q) ==
  [sql |-> q.finalSql,
   limit |-> IF q.queryPlan.allowsLimit /\ q.limit # 0 THEN Min(q.limit, MaxRowLimit) ELSE 0]

\* one iteration of the loop up to the end of the try block or of the catch's first half:
\* the statement runs; with rows and a summary the handler answers, anything thrown
\* inside the try block is logged as a database error
Execute ==
  /\ query.pc = "execute"
  /\ query.attempts <= MAX_CORRECTION_ATTEMPTS
  /\ \E outcome \in Outcomes :
       LET ran == Append(query.ran, [sqlToRun |-> SqlToRun(query), outcome |-> outcome]) IN
       query' =
         IF outcome = "rows"
         THEN [query EXCEPT !.pc = "done", !.ran = ran,
                 !.responses = Append(@, QueryResponse(TRUE, 200, "Query executed successfully"))]
         ELSE [query EXCEPT
                 !.ran = ran,
                 !.errorFeedbackLog = Append(@, [sql |-> query.finalSql, error |-> outcome]),
                 !.pc = IF query.attempts = MAX_CORRECTION_ATTEMPTS
                        THEN "fallback" ELSE "correct"]
  /\ UNCHANGED <<db, audit, clock, req, workload, pass, listing>>

\* the catch's second half: generateQueryPlan with the error log answers or rejects
Correct ==
  /\ query.pc = "correct"
  /\ \E correctedPlan \in QueryPlans, answers \in BOOLEAN :
       query' =
         IF ~answers
         THEN [query EXCEPT !.pc = "done", !.corrections = @ + 1,
                 !.responses = Append(@, QueryError(500, "service error"))]
         ELSE IF ~correctedPlan.successStatus
         THEN [query EXCEPT !.pc = "fallback", !.corrections = @ + 1,
                 !.queryPlan = correctedPlan, !.finalSql = correctedPlan.sql]
         ELSE [query EXCEPT !.pc = "execute", !.corrections = @ + 1,
                 !.queryPlan = correctedPlan, !.finalSql = correctedPlan.sql,
                 !.attempts = @ + 1]
  /\ UNCHANGED <<db, audit, clock, req, workload, pass, listing>>

\* after the loop: the fallback summary, then the failure response
Fallback ==
  /\ query.pc = "fallback"
  /\ \E summarised \in BOOLEAN :
       query' = [query EXCEPT !.pc = "done",
                   !.responses =
                     Append(@, IF summarised
                               THEN QueryResponse(FALSE, 400,
                                      "Failed to execute query after multiple attempts.")
                               ELSE QueryError(500, "service error"))]
  /\ UNCHANGED <<db, audit, clock, req, workload, pass, listing>>

Init ==
  /\ db = InitDb
  /\ audit = {}
  /\ clock = 1
  /\ workload = "concurrent"
  /\ req = [r \in Reqs2 |-> Idle]
  /\ pass = PassIdle
  /\ listing = NoListing
  /\ query = QueryIdle

InitPayload ==
  /\ db = InitDb
  /\ audit = {}
  /\ clock = 1
  /\ workload = "single"
  /\ req = [r \in Reqs1 |-> Idle]
  /\ pass = PassIdle
  /\ listing = NoListing
  /\ query = QueryIdle

Next ==
  \/ \E r \in DOMAIN req : Receive(r)
  \/ \E r \in DOMAIN req : Transact(r)
  \/ Tick

InitPlan ==
  /\ db \in PlanStores
  /\ audit = {}
  /\ clock = 1
  /\ workload = "analysis"
  /\ req = [r \in {} |-> Idle]
  /\ pass = PassIdle
  /\ listing = NoListing
  /\ query = QueryIdle

NextPlan ==
  \/ Analyze
  \/ Decide
  \/ OracleFails
  \/ Respond

InitListing ==
  /\ db \in ListingStores
  /\ audit = {}
  /\ clock = 1
  /\ workload = "listing"
  /\ req = [r \in Reqs1 |-> Idle]
  /\ pass = PassIdle
  /\ listing = NoListing
  /\ query = QueryIdle

NextListing ==
  \/ \E r \in DOMAIN req : Receive(r)
  \/ \E r \in DOMAIN req : Transact(r)
  \/ ListByFullName
  \/ ListByNameWithType

\* requests to resolve-duplicates/manual: two interleaved ones with ids only, or one with
\* any payload
InitManual ==
  /\ db = InitDb
  /\ audit = {}
  /\ clock = 1
  /\ workload \in {"concurrent", "single"}
  /\ req = [r \in (IF workload = "concurrent" THEN Reqs2 ELSE Reqs1) |-> Idle]
  /\ pass = PassIdle
  /\ listing = NoListing
  /\ query = QueryIdle

NextManual ==
  \/ \E r \in DOMAIN req : ReceiveManually(r)
  \/ \E r \in DOMAIN req : TransactManually(r)
  \/ Tick

\* one merge request and one analysis pass over the same store, in any interleaving
InitReplan ==
  /\ db = InitDb
  /\ audit = {}
  /\ clock = 1
  /\ workload = "concurrent"
  /\ req = [r \in Reqs1 |-> Idle]
  /\ pass = PassIdle
  /\ listing = NoListing
  /\ query = QueryIdle

NextReplan ==
  \/ \E r \in DOMAIN req : Receive(r)
  \/ \E r \in DOMAIN req : Transact(r)
  \/ Analyze
  \/ Decide
  \/ OracleFails
  \/ Respond

InitQuery ==
  /\ db = InitDb
  /\ audit = {}
  /\ clock = 1
  /\ workload = "questions"
  /\ req = [r \in {} |-> Idle]
  /\ pass = PassIdle
  /\ listing = NoListing
  /\ query = QueryIdle

NextQuery ==
  \/ Ask
  \/ Execute
  \/ Correct
  \/ Fallback

Spec == Init /\ [][Next]_vars
SpecPayload == InitPayload /\ [][Next]_vars
SpecPlan == InitPlan /\ [][NextPlan]_vars
SpecListing == InitListing /\ [][NextListing]_vars
SpecManual == InitManual /\ [][NextManual]_vars
SpecReplan == InitReplan /\ [][NextReplan]_vars
SpecQuery == InitQuery /\ [][NextQuery]_vars

\* ================================================================== claims
\* ------------------------------------------------------------------ vocabulary
Keep(r) == req[r].body.keep_entity_id
RemoveIds(r) == Range(req[r].body.remove_entity_ids.items)

\* the step in which request r's transaction commits / fails
Commits(r) == req[r].pc = "validated" /\ req'[r].pc = "done" /\ req'[r].resp.kind = "ok"
Aborts(r) == req[r].pc = "validated" /\ req'[r].pc = "done" /\ req'[r].resp.kind # "ok"
Arrives(r) == req[r].pc = "idle" /\ req'[r].pc # "idle"

\* the ids of a body that name no entity or a soft-deleted one in store d
MissingOrDeleted(d, b) ==
  {id \in Range(allEntityIds(b)) : id \notin DOMAIN d.entity \/ d.entity[id].is_deleted}

PropertyKey(p) == <<p.property_id, toLowerCase(trim(p.property_value))>>

PeopleOf(d, e) == {d.people[i] : i \in {j \in DOMAIN d.people : d.people[j].entity_id = e}}
AddressesOf(d, e) ==
  {d.address[i] : i \in {j \in DOMAIN d.address : d.address[j].entity_id = e}}
PropertiesOf(d, e) == {p \in d.entity_property : p.entity_id = e}

PayloadPeopleIds(r) == {p.people_id : p \in Range(req[r].body.merged_entity.people.items)}
PayloadAddressIds(r) == {a.address_id : a \in Range(req[r].body.merged_entity.address.items)}

\* C1: whenever a validated merge commits, in the resulting store the kept entity is
\* not deleted and every removed entity is deleted with deleted_at set.
C1_MergePostcondition ==
  [][\A r \in DOMAIN req :
       Commits(r) =>
         /\ ~db'.entity[Keep(r)].is_deleted
         /\ \A e \in RemoveIds(r) :
              db'.entity[e].is_deleted /\ db'.entity[e].deleted_at # Null]_vars

\* C2: a transaction that fails at any statement, or at its commit, leaves the four
\* tables as they were and answers with the underlying error message; and the tables
\* only ever change by one complete, committed transaction.
C2_FailedTransactionRollsBack ==
  [][/\ \A r \in DOMAIN req :
          Aborts(r) =>
            /\ db' = db
            /\ req'[r].resp.kind = "RouteError.BadRequest"
            /\ req'[r].resp.message = "Failed to apply merge: "
            /\ \E failAt \in FailPoints :
                 LET st == RunFrom([db |-> db, audit |-> audit, err |-> ""],
                                   req[r], clock, 1, failAt)
                 IN st.err # "" /\ req'[r].resp.cause = st.err
     /\ db' # db =>
          \E r \in DOMAIN req :
            /\ Commits(r)
            /\ db' = RunFrom([db |-> db, audit |-> audit, err |-> ""],
                              req[r], clock, 1, 0).db]_vars

\* C2 witness: a transaction failed at the property update of statement 6, after the
\* entity, people and address statements had run in it.
C2_Witness ==
  \E r \in DOMAIN req :
    /\ req[r].pc = "done"
    /\ req[r].resp.cause = RecordNotFound
    /\ db = InitDb

\* C3: the requests (keep=a, remove=[b]) and (keep=b, remove=[a]) are never both
\* applied, so a and b are never both soft-deleted by them.
C3_MutualMergesSerialized ==
  \A r1, r2 \in DOMAIN req :
    (/\ r1 # r2
     /\ req[r1].pc # "idle" /\ req[r2].pc # "idle"
     /\ req[r1].body.remove_entity_ids.isArray /\ req[r2].body.remove_entity_ids.isArray
     /\ Keep(r1) \in RemoveIds(r2)
     /\ Keep(r2) \in RemoveIds(r1))
    => ~(Applied(req[r1]) /\ Applied(req[r2]))

\* C4: a request whose keep_entity_id is in remove_entity_ids is answered with a
\* validation error, without any database query.
C4_KeepInRemoveRejected ==
  \A r \in DOMAIN req :
    (/\ req[r].pc # "idle"
     /\ req[r].body.remove_entity_ids.isArray
     /\ Keep(r) \in RemoveIds(r))
    => /\ req[r].pc = "done"
       /\ req[r].resp.kind = "RouteError.BadRequest"
       /\ ~req[r].queried
       /\ req[r].resp.cause = ""

\* C5: a request that passes checks 1-4 and names an id that does not exist or is
\* soft-deleted when the entities are fetched is rejected there, before any
\* transaction; the message lists exactly those ids; tables and log files are unchanged.
C5_MissingIdsRejected ==
  [][\A r \in DOMAIN req :
       (/\ Arrives(r)
        /\ SyncCheck(req'[r].body) = ""
        /\ MissingOrDeleted(db, req'[r].body) # {})
       => /\ req'[r].pc = "done"
          /\ req'[r].resp.kind = "RouteError.BadRequest"
          /\ req'[r].resp.message = "Invalid entity IDs: not found or already deleted"
          /\ Range(req'[r].resp.ids) = MissingOrDeleted(db, req'[r].body)
          /\ db' = db
          /\ audit' = audit]_vars

\* C5 witness: a rejected request whose message names an entity that is soft-deleted.
C5_Witness ==
  \E r \in DOMAIN req :
    /\ req[r].pc = "done"
    /\ req[r].resp.message = "Invalid entity IDs: not found or already deleted"
    /\ \E id \in Range(req[r].resp.ids) : id \in DOMAIN db.entity /\ db.entity[id].is_deleted

\* C6: no step changes a soft-deleted entity's row, or the people, addresses and
\* properties under its id.
C6_DeletedEntityImmutable ==
  [][\A e \in DOMAIN db.entity :
       db.entity[e].is_deleted =>
         /\ db'.entity[e] = db.entity[e]
         /\ PeopleOf(db', e) = PeopleOf(db, e)
         /\ AddressesOf(db', e) = AddressesOf(db, e)
         /\ PropertiesOf(db', e) = PropertiesOf(db, e)]_vars

C8_KeptPropertiesUnique ==
  [][\A r \in DOMAIN req :
       Commits(r) =>
         LET rows == PropertiesOf(db', Keep(r))
             contributing == UNION {PropertiesOf(db, e) : e \in {Keep(r)} \cup RemoveIds(r)}
         IN
         /\ \A p, q \in rows : PropertyKey(p) = PropertyKey(q) => p = q
         /\ \A c \in contributing :
              (c.is_primary = "Yes" /\ \E p \in rows : PropertyKey(p) = PropertyKey(c))
              => \E p \in rows : PropertyKey(p) = PropertyKey(c) /\ p.is_primary = "Yes"]_vars

\* ------------------------------------------------------------------ Planner claims
\* the fetched record of a people id
Fetched(id) == pass.people[CHOOSE k \in DOMAIN pass.people : pass.people[k].people_id = id]

\* the properties a proposal draws on: the retained record's entity's, then those of
\* each deleted record's entity, in the order of the deletion list
Contributing(prop) ==
  Fetched(prop.deletionPlan.retained_people_id).entity.entity_property
    \o Flatten([k \in DOMAIN prop.deletionPlan.deleted_people_ids |->
                  Fetched(prop.deletionPlan.deleted_people_ids[k]).entity.entity_property])

\* C9: in every proposal the merged property list has one entry per key
\* (property_id, trimmed lowercase value) of the contributing properties with a value;
\* the entry is the first contributing one with that key, kept-then-removed, owned by
\* the retained entity, and it is primary exactly if some contributing one is.
C9_MergedPropertiesDeduplicated ==
  \A n \in DOMAIN pass.grouped :
    LET prop == pass.grouped[n]
        merged == prop.mergedProperties
        all == Contributing(prop)
        first(key) ==
          CHOOSE k \in DOMAIN all :
            /\ all[k].property_value # <<>> /\ PropertyKey(all[k]) = key
            /\ \A j \in 1 .. (k - 1) :
                 all[j].property_value = <<>> \/ PropertyKey(all[j]) # key
    IN
    /\ \A i, j \in DOMAIN merged : PropertyKey(merged[i]) = PropertyKey(merged[j]) => i = j
    /\ \A k \in DOMAIN all :
         all[k].property_value # <<>>
           => \E i \in DOMAIN merged : PropertyKey(merged[i]) = PropertyKey(all[k])
    /\ \A i \in DOMAIN merged :
         /\ \E k \in DOMAIN all :
              all[k].property_value # <<>> /\ PropertyKey(all[k]) = PropertyKey(merged[i])
         /\ LET src == all[first(PropertyKey(merged[i]))] IN
            /\ merged[i].entity_property_id = src.entity_property_id
            /\ merged[i].property_id = src.property_id
            /\ merged[i].property_value = src.property_value
            /\ merged[i].entity_id = prop.deletionPlan.retained_entity_id
         /\ merged[i].is_primary = "Yes"
              <=> \E k \in DOMAIN all :
                    /\ all[k].property_value # <<>>
                    /\ PropertyKey(all[k]) = PropertyKey(merged[i])
                    /\ all[k].is_primary = "Yes"
    /\ \A i, j \in DOMAIN merged :
         i < j => \E k \in DOMAIN all :
                    /\ k = first(PropertyKey(merged[i]))
                    /\ k < first(PropertyKey(merged[j]))

\* C9 witness: a proposal in which two contributing properties collided on one key and
\* the entry kept, not primary at its source, became primary through the other.
C9_Witness ==
  \E n \in DOMAIN pass.grouped :
    LET prop == pass.grouped[n]
        all == Contributing(prop)
    IN \E i \in DOMAIN prop.mergedProperties, k \in DOMAIN all :
         /\ all[k].entity_property_id = prop.mergedProperties[i].entity_property_id
         /\ all[k].is_primary = "No"
         /\ prop.mergedProperties[i].is_primary = "Yes"
         /\ prop.deletionPlan.deleted_people_ids # <<>>

\* C10: every proposal made from an oracle answer that keeps one of the records it was
\* given and removes some of the others has a non-empty list of removed ids, and its
\* retained entity and people ids are not among its deleted ones.
C10_ProposalKeepNotRemoved ==
  \A n \in DOMAIN pass.grouped :
    LET prop == pass.grouped[n]
        plan == prop.deletionPlan
    IN (/\ prop.aiDecision.keep \in pass.given[n]
        /\ prop.aiDecision.remove # {}
        /\ prop.aiDecision.remove \subseteq pass.given[n] \ {prop.aiDecision.keep})
       => /\ plan.deleted_people_ids # <<>>
          /\ plan.deleted_entity_ids # <<>>
          /\ plan.retained_people_id \notin Range(plan.deleted_people_ids)
          /\ plan.retained_entity_id \notin Range(plan.deleted_entity_ids)

\* ------------------------------------------------------------------ listings
\* the non-deleted entities of one type that hold a name, as the store has it
LiveHolders(d, name, type) ==
  {e \in DOMAIN d.entity :
     d.entity[e].name = name /\ d.entity[e].type = type /\ ~d.entity[e].is_deleted}

\* a step of one of the two listing controllers
Lists == req' = req /\ listing'.kind = "ok"

\* C11: every group the Grouper emits has two or more members and a non-empty key that
\* is the normalized (trimmed, lowercased) name of each member, in the entity listings
\* and for the people handed to the oracle in the analysis pass.
C11_GroupsOfTwoWithNormalizedKey ==
  /\ \A k \in DOMAIN listing.emitted :
       LET g == listing.emitted[k] IN
       /\ Cardinality(g.members) >= 2
       /\ g.key # <<>>
       /\ \A m \in g.members : g.key = toLowerCase(trim(m.name))
  /\ AtCall =>
       LET key == pass.nameGroups[pass.at[1]].key IN
       /\ Len(Supplied) >= 2
       /\ key # <<>>
       /\ \A i \in DOMAIN Supplied : key = FullName(Supplied[i])

\* C12: a listing counts only entities that are not deleted: each group's members are
\* exactly the non-deleted holders of its name, a name is listed iff it has two or more
\* of them, so the entities removed by an applied merge are in no later group.
C12_RemovedExcludedFromGrouping ==
  [][Lists =>
       /\ \A k \in DOMAIN listing'.emitted :
            LET g == listing'.emitted[k] IN
            /\ {m.entity_id : m \in g.members} = LiveHolders(db, g.key, listing'.type)
            /\ \A m \in g.members : ~db.entity[m.entity_id].is_deleted
            /\ \A j \in DOMAIN listing'.emitted : j # k => listing'.emitted[j].key # g.key
       /\ \A e \in DOMAIN db.entity :
            LET name == db.entity[e].name IN
            (name # NoName /\ Cardinality(LiveHolders(db, name, listing'.type)) >= 2)
              <=> (\E k \in DOMAIN listing'.emitted : listing'.emitted[k].key = name)
       /\ listing'.endpoint = "by-type" =>
            /\ listing'.pagination.total = Len(listing'.emitted)
            /\ \A i \in DOMAIN listing'.data :
                 listing'.data[i].duplicateCount
                   = Cardinality(LiveHolders(db, listing'.data[i].name, listing'.type))]_vars

\* two entities of type 2 with one name were merged, and a listing of type 2 taken
\* afterwards has no group of that name
C12_Witness ==
  \E r \in DOMAIN req :
    /\ Applied(req[r])
    /\ LET keep == Keep(r)
           removed == req[r].body.remove_entity_ids.items[1]
       IN /\ db.entity[keep].name = db.entity[removed].name
          /\ db.entity[keep].type = 2
          /\ db.entity[removed].type = 2
          /\ listing.kind = "ok"
          /\ listing.endpoint = "by-type"
          /\ listing.type = 2
          /\ listing.pagination.total = 1
          /\ \A k \in DOMAIN listing.emitted : listing.emitted[k].key # db.entity[keep].name

C14_EndpointsIdentical ==
  /\ [](\A r \in DOMAIN req :
          req[r].pc = "validated" =>
            \A failAt \in FailPoints :
              Transaction(db, audit, req[r], clock, failAt)
                = TransactionManually(db, audit, req[r], clock, failAt))
  /\ [][\A r \in DOMAIN req :
          /\ Arrives(r) => req'[r] = Validation(req'[r].body, db)
          /\ (req[r].pc = "validated" /\ req'[r].pc = "done") =>
               \E failAt \in FailPoints :
                 LET out == Transaction(db, audit, req[r], clock, failAt) IN
                 /\ req'[r].resp.cause = out.err
                 /\ req'[r].resp.kind = (IF out.err = "" THEN "ok" ELSE "RouteError.BadRequest")
                 /\ db' = out.db
                 /\ audit' = out.audit]_vars

\* the manual endpoint applied a merge that carried sub-records
C14_Witness ==
  \E r \in DOMAIN req :
    /\ Applied(req[r])
    /\ req[r].body.merged_entity.people.items # <<>>
    /\ db.entity[Keep(r)].name = Renamed
    /\ audit # {}

\* ------------------------------------------------------------------ audit
\* C15: a merge whose transaction commits adds exactly one audit record; a request that
\* is rejected by validation, and a merge whose transaction fails, times out or is
\* rolled back, adds none.
C15_OneAuditRecordPerCommit ==
  [][\A r \in DOMAIN req :
       /\ Commits(r) => Cardinality(audit') = Cardinality(audit) + 1
       /\ Arrives(r) => audit' = audit
       /\ Aborts(r) => audit' = audit]_vars

\* C16: the audit sink is append-only: no step overwrites or removes a record, and every
\* applied merge adds a record of its own, also when it keeps an entity of the same
\* name at the same timestamp as an earlier merge.
C16_AuditAppendOnly ==
  [][/\ \A f \in audit : f \in audit'
     /\ \A r \in DOMAIN req :
          Commits(r) => Cardinality(audit') = Cardinality(audit) + 1]_vars

\* ------------------------------------------------------------------ resubmission
SameIds(a, b) ==
  /\ a.keep_entity_id = b.keep_entity_id
  /\ a.remove_entity_ids = b.remove_entity_ids

\* C17: a request that arrives after a request with the same keep and remove ids was
\* applied is rejected at check 5, its message listing ids that are soft-deleted (remove
\* ids of the applied merge), and it changes neither the store nor the audit records.
C17_ResubmissionRejected ==
  [][\A r, q \in DOMAIN req :
       (r # q /\ Applied(req[q]) /\ Arrives(r) /\ SameIds(req'[r].body, req[q].body))
         => /\ req'[r].pc = "done"
            /\ req'[r].resp.kind = "RouteError.BadRequest"
            /\ req'[r].resp.message = "Invalid entity IDs: not found or already deleted"
            /\ req'[r].resp.ids # <<>>
            /\ \A id \in Range(req'[r].resp.ids) :
                 id \in RemoveIds(q) /\ db.entity[id].is_deleted
            /\ db' = db
            /\ audit' = audit]_vars

\* a merge was applied, the same ids were submitted again and rejected; the store has
\* the one merge and the one audit record
C17_Witness ==
  \E r, q \in DOMAIN req :
    /\ r # q
    /\ Applied(req[q])
    /\ SameIds(req[r].body, req[q].body)
    /\ req[r].pc = "done"
    /\ req[r].resp.message = "Invalid entity IDs: not found or already deleted"
    /\ Cardinality(audit) = 1

\* ------------------------------------------------------------------ validation order
\* the first check, in the order 1..5 of the Validator, that body b violates in store d;
\* 0 when it violates none
FirstViolatedCheck(d, b) ==
  IF b.keep_entity_id = 0 THEN 1
  ELSE IF ~b.remove_entity_ids.isArray \/ b.remove_entity_ids.items = <<>> THEN 2
  ELSE IF b.keep_entity_id \in Range(b.remove_entity_ids.items) THEN 3
  ELSE IF \/ ~b.merged_entity.present
          \/ ~b.merged_entity.people.isArray
          \/ ~b.merged_entity.address.isArray
          \/ ~b.merged_entity.entity_property.isArray THEN 4
  ELSE IF MissingOrDeleted(d, b) # {} THEN 5
  ELSE 0

CheckMessages(c) ==
  CASE c = 1 -> {"Field 'keep_entity_id' is required"}
    [] c = 2 -> {"At least one entity must be in 'remove_entity_ids'"}
    [] c = 3 -> {"'keep_entity_id' cannot be in 'remove_entity_ids'"}
    [] c = 4 -> {"At least one person is required in 'merged_entity.people'",
                 "'merged_entity.address' must be an array",
                 "'merged_entity.properties' must be an array"}
    [] c = 5 -> {"Invalid entity IDs: not found or already deleted"}
    [] OTHER -> {}

\* C18: a body that violates a check is answered with the validation error of the first
\* check it violates, in the order 1..5; the database is read only when checks 1-4 pass,
\* and nothing is written. Bodies without a merged_entity object are included.
C18_FirstViolatedCheckReported ==
  [][\A r \in DOMAIN req :
       Arrives(r) =>
         LET c == FirstViolatedCheck(db, req'[r].body) IN
         c # 0 => /\ req'[r].pc = "done"
                  /\ req'[r].resp.kind = "RouteError.BadRequest"
                  /\ req'[r].resp.message \in CheckMessages(c)
                  /\ req'[r].queried = (c = 5)
                  /\ db' = db
                  /\ audit' = audit]_vars

\* C19: a request is rejected at check 5 only if one of its ids is missing or
\* soft-deleted, and then the message lists exactly those ids; in particular a request
\* that passes checks 1-4 and names only existing non-deleted entities, with or without
\* a repeated remove id, passes check 5.
C19_Check5OnlyForMissingIds ==
  [][\A r \in DOMAIN req :
       Arrives(r) =>
         LET b == req'[r].body
             rejectedAt5 ==
               req'[r].resp.message = "Invalid entity IDs: not found or already deleted"
         IN /\ rejectedAt5 =>
                 /\ MissingOrDeleted(db, b) # {}
                 /\ Range(req'[r].resp.ids) = MissingOrDeleted(db, b)
            /\ FirstViolatedCheck(db, b) = 0 => req'[r].pc = "validated"]_vars

\* ------------------------------------------------------------------ upserts
\* what a date column must hold for a payload value: the date, or null for a missing,
\* empty or unparseable one
NullUnlessDate(raw) == IF raw = "2000-01-01" THEN Some(raw) ELSE Null

\* the last entry of a payload list that carries id under field f
LastWithId(items, f, id) ==
  items[CHOOSE j \in DOMAIN items :
          items[j][f] = id /\ \A h \in DOMAIN items : h > j => items[h][f] # id]

\* C20: in an applied merge, a payload person (address) whose id is one the kept entity
\* owned at validation is updated in place, with no new row; every other payload person
\* (address) becomes exactly one new, non-deleted row of the kept entity, in payload
\* order; date_of_birth holds the payload's date, or null when that is missing, empty
\* or unparseable, and a merge that carries people or addresses fails only when the
\* transaction is interrupted.
C20_UpdateOwnedCreateOthers ==
  [][\A r \in DOMAIN req :
       /\ Commits(r) =>
            LET keep == Keep(r)
                people == req[r].body.merged_entity.people.items
                ownedPeople == req[r].entities[keep].people
                newPeople == SelectSeq(people, LAMBDA p : p.people_id \notin ownedPeople)
                addresses == req[r].body.merged_entity.address.items
                ownedAddresses == req[r].entities[keep].address
                newAddresses ==
                  SelectSeq(addresses, LAMBDA a : a.address_id \notin ownedAddresses)
            IN /\ Len(db'.people) = Len(db.people) + Len(newPeople)
               /\ \A k \in DOMAIN newPeople :
                    LET row == db'.people[Len(db.people) + k] IN
                    /\ row.entity_id = keep
                    /\ row.first_name = newPeople[k].first_name
                    /\ row.date_of_birth = NullUnlessDate(newPeople[k].date_of_birth)
                    /\ row.deleted_at = Null
               /\ \A id \in ownedPeople :
                    IF \E i \in DOMAIN people : people[i].people_id = id
                    THEN LET row == db'.people[id]
                             person == LastWithId(people, "people_id", id)
                         IN /\ row.entity_id = keep
                            /\ row.first_name = person.first_name
                            /\ row.date_of_birth = NullUnlessDate(person.date_of_birth)
                    ELSE db'.people[id] = db.people[id]
               /\ Len(db'.address) = Len(db.address) + Len(newAddresses)
               /\ \A k \in DOMAIN newAddresses :
                    LET row == db'.address[Len(db.address) + k] IN
                    /\ row.entity_id = keep
                    /\ row.street = newAddresses[k].street
                    /\ row.deleted_at = Null
               /\ \A id \in ownedAddresses :
                    IF \E i \in DOMAIN addresses : addresses[i].address_id = id
                    THEN /\ db'.address[id].entity_id = keep
                         /\ db'.address[id].street
                              = LastWithId(addresses, "address_id", id).street
                    ELSE db'.address[id] = db.address[id]
       /\ (Aborts(r) /\ req[r].body.merged_entity.entity_property.items = <<>>)
            => req'[r].resp.cause = Interrupted]_vars

\* an applied merge whose payload updated a person of the kept entity with an
\* unparseable date of birth and created a second person from an entry that named a
\* person of another entity
C20_Witness ==
  \E r \in DOMAIN req :
    /\ Applied(req[r])
    /\ LET people == req[r].body.merged_entity.people.items IN
       /\ Len(people) = 2
       /\ people[1].people_id \in req[r].entities[Keep(r)].people
       /\ people[1].date_of_birth = "not-a-date"
       /\ people[2].people_id \in UNION {req[r].entities[e].people : e \in RemoveIds(r)}
       /\ db.people[people[1].people_id].date_of_birth = Null
       /\ db.people[people[1].people_id].first_name = people[1].first_name
       /\ Len(db.people) = NumEntities + 1
       /\ db.people[NumEntities + 1].entity_id = Keep(r)

\* ------------------------------------------------------------------ property replace
PropertyContent(p) == <<p.property_id, p.property_value, p.is_primary>>

\* C21: after an applied merge the kept entity's property rows are the payload's
\* property list, one row per entry with the entry's type, value and primary flag; the
\* rows it owned before are gone, and no row of a removed entity remains.
C21_KeptPropertiesArePayload ==
  [][\A r \in DOMAIN req :
       Commits(r) =>
         LET keep == Keep(r)
             items == req[r].body.merged_entity.entity_property.items
             rows == PropertiesOf(db', keep)
         IN /\ Cardinality(rows) = Len(items)
            /\ \A p \in rows : \E i \in DOMAIN items : PropertyContent(items[i]) = PropertyContent(p)
            /\ \A i \in DOMAIN items :
                 Cardinality({p \in rows : PropertyContent(p) = PropertyContent(items[i])})
                   = Cardinality({j \in DOMAIN items :
                                    PropertyContent(items[j]) = PropertyContent(items[i])})
            /\ \A p \in PropertiesOf(db, keep) :
                 \A q \in db'.entity_property : q.entity_property_id # p.entity_property_id
            /\ \A e \in RemoveIds(r) : PropertiesOf(db', e) = {}]_vars

\* an applied merge with two payload properties: the kept entity's one row was replaced
\* by two new rows and the removed entity's row is gone
C21_Witness ==
  \E r \in DOMAIN req :
    /\ Applied(req[r])
    /\ Len(req[r].body.merged_entity.entity_property.items) = 2
    /\ Cardinality(PropertiesOf(db, Keep(r))) = 2
    /\ \A p \in db.entity_property :
         p.entity_property_id \notin ({Keep(r)} \cup RemoveIds(r))

\* C22: the property step never makes a validated merge fail (a merge fails only when
\* the transaction is interrupted), and after an applied merge every payload property
\* that carried the id of a property of the kept entity is a row of the kept entity
\* under that id.
C22_PropertyStepSucceeds ==
  [][\A r \in DOMAIN req :
       /\ Aborts(r) => req'[r].resp.cause = Interrupted
       /\ Commits(r) =>
            \A x \in Range(req[r].body.merged_entity.entity_property.items) :
              x.entity_property_id \in req[r].entities[Keep(r)].entity_property
                => \E p \in PropertiesOf(db', Keep(r)) :
                     p.entity_property_id = x.entity_property_id]_vars

\* ------------------------------------------------------------------ identity key
\* the identity key of the Grouper: the trimmed, lowercased name
NormalizedName(name) == toLowerCase(trim(name))

\* for a person: normalized first and last name joined by one space, empty parts omitted
NormalizedPersonKey(p) ==
  LET fn == NormalizedName(p.first_name)
      ln == NormalizedName(p.last_name)
  IN IF fn = <<>> THEN ln ELSE IF ln = <<>> THEN fn ELSE fn \o <<" ">> \o ln

\* C23: two non-deleted entities of the listed type whose names have the same non-empty
\* normalized form are members of one emitted group; the people of an analysis pass are
\* grouped under their normalized person key, two people with the same non-empty key
\* being in one group.
C23_GroupedByNormalizedName ==
  /\ [][Lists =>
          \A a, b \in DOMAIN db.entity :
            (/\ a # b
             /\ ~db.entity[a].is_deleted /\ ~db.entity[b].is_deleted
             /\ db.entity[a].type = listing'.type /\ db.entity[b].type = listing'.type
             /\ NormalizedName(db.entity[a].name) # <<>>
             /\ NormalizedName(db.entity[a].name) = NormalizedName(db.entity[b].name))
            => \E k \in DOMAIN listing'.emitted :
                 {a, b} \subseteq {m.entity_id : m \in listing'.emitted[k].members}]_vars
  /\ [](pass.pc = "loop" =>
          /\ \A g \in DOMAIN pass.nameGroups :
               \A i \in DOMAIN pass.nameGroups[g].items :
                 pass.nameGroups[g].key = NormalizedPersonKey(pass.nameGroups[g].items[i])
          /\ \A i, j \in DOMAIN pass.people :
               (/\ NormalizedPersonKey(pass.people[i]) # <<>>
                /\ NormalizedPersonKey(pass.people[i]) = NormalizedPersonKey(pass.people[j]))
               => \E g \in DOMAIN pass.nameGroups :
                    {pass.people[i].people_id, pass.people[j].people_id}
                      \subseteq {pass.nameGroups[g].items[k].people_id :
                                   k \in DOMAIN pass.nameGroups[g].items})

\* ------------------------------------------------------------------ analysis pass
\* the people ids a proposal consumes
ConsumedBy(prop) ==
  {prop.deletionPlan.retained_people_id} \cup Range(prop.deletionPlan.deleted_people_ids)

\* C24: within one pass no people id is retained or deleted by two proposals, every id
\* a proposal consumed is marked seen, and no record that is marked seen or consumed is
\* handed to the oracle again, as primary or as duplicate.
C24_ConsumedOnce ==
  /\ \A m, n \in DOMAIN pass.grouped :
       m # n => ConsumedBy(pass.grouped[m]) \cap ConsumedBy(pass.grouped[n]) = {}
  /\ \A n \in DOMAIN pass.grouped : ConsumedBy(pass.grouped[n]) \subseteq pass.seen
  /\ AtCall =>
       \A k \in DOMAIN Supplied :
         /\ Supplied[k].people_id \notin pass.seen
         /\ \A n \in DOMAIN pass.grouped :
              Supplied[k].people_id \notin ConsumedBy(pass.grouped[n])

\* two proposals from one name group of three people: the second was made without the
\* record the first one retained
C24_Witness ==
  /\ Len(pass.grouped) = 2
  /\ Len(pass.nameGroups) = 1
  /\ pass.grouped[1].deletionPlan.retained_people_id \notin pass.given[2]
  /\ pass.grouped[1].deletionPlan.retained_people_id \in pass.given[1]

\* the oracle answered within its contract: keep is one of the ids it was given and
\* remove is a set of the other ids
WithinContract(n) ==
  /\ pass.grouped[n].aiDecision.keep \in pass.given[n]
  /\ pass.grouped[n].aiDecision.remove \subseteq pass.given[n] \ {pass.grouped[n].aiDecision.keep}

\* C25: in every proposal made from an answer within the oracle's contract, the deleted
\* people ids are exactly the oracle's remove ids (the primary included when the oracle
\* keeps a duplicate and removes the primary), and the retained record is the one whose
\* id is the oracle's keep.
C25_DecisionResolved ==
  \A n \in DOMAIN pass.grouped :
    WithinContract(n) =>
      /\ Range(pass.grouped[n].deletionPlan.deleted_people_ids)
           = pass.grouped[n].aiDecision.remove
      /\ pass.grouped[n].deletionPlan.retained_people_id = pass.grouped[n].aiDecision.keep
      /\ pass.grouped[n].deletionPlan.retained_entity_id
           = Fetched(pass.grouped[n].aiDecision.keep).entity.entity_id

\* C26: the deletion plan maps 'people' to the removed people ids, 'entity' to the ids
\* of their entities, 'entity_property' to the ids of those entities' property rows and
\* 'address' to the ids of those entities' address rows; a table with no id is absent.
C26_DeletionPlanTables ==
  \A n \in DOMAIN pass.grouped :
    LET plan == pass.grouped[n].deletionPlan
        removed == [k \in DOMAIN plan.deleted_people_ids |-> Fetched(plan.deleted_people_ids[k])]
        expected ==
          {[table |-> "people", ids |-> plan.deleted_people_ids],
           [table |-> "entity", ids |-> [k \in DOMAIN removed |-> removed[k].entity.entity_id]],
           [table |-> "entity_property",
            ids |-> Flatten([k \in DOMAIN removed |->
                               [j \in DOMAIN removed[k].entity.entity_property |->
                                  removed[k].entity.entity_property[j].entity_property_id]])],
           [table |-> "address",
            ids |-> Flatten([k \in DOMAIN removed |-> removed[k].entity.address])]}
    IN plan.tables_to_cleanup = {t \in expected : t.ids # <<>>}

\* C27: when an oracle call fails the pass ends there: the response is a failure that
\* carries no proposal, those built for earlier groups included, and nothing of the
\* pass changes afterwards (no further oracle call).
C27_OracleFailureAbortsPass ==
  /\ []((pass.pc = "done" /\ ~pass.success) => pass.grouped = <<>>)
  /\ [][pass.pc = "done" => pass' = pass]_vars

\* the oracle failed after an earlier call of the same pass had produced a proposal
C27_Witness ==
  /\ pass.pc = "done"
  /\ ~pass.success
  /\ pass.given # <<>>
  /\ pass.grouped = <<>>

\* C28: no proposal of an analysis pass names a soft-deleted record: every retained or
\* deleted person of a proposal had, when the pass fetched it, no deleted_at and an
\* entity that is not deleted (so neither the retained nor a deleted entity id is that
\* of an entity an earlier merge removed).
C28_NoSoftDeletedProposed ==
  \A n \in DOMAIN pass.grouped :
    \A id \in ConsumedBy(pass.grouped[n]) :
      /\ Fetched(id).deleted_at = Null
      /\ ~Fetched(id).entity.is_deleted

\* ------------------------------------------------------------------ frame of a merge
MergeGroup(r) == {Keep(r)} \cup RemoveIds(r)

\* C29: a merge that commits changes nothing outside its group, whatever ids the payload
\* carries: every entity that is neither kept nor removed, and every person, address
\* and property row owned by such an entity, is the same before and after; and the kept
\* entity's own people and addresses that the payload does not name are the same before
\* and after (in particular not deleted).
C29_MergeFrame ==
  [][\A r \in DOMAIN req :
       Commits(r) =>
         /\ \A e \in DOMAIN db.entity \ MergeGroup(r) :
              /\ db'.entity[e] = db.entity[e]
              /\ PropertiesOf(db', e) = PropertiesOf(db, e)
         /\ \A i \in DOMAIN db.people :
              \/ db.people[i].entity_id \notin MergeGroup(r)
              \/ (db.people[i].entity_id = Keep(r) /\ i \notin PayloadPeopleIds(r))
              => (i \in DOMAIN db'.people /\ db'.people[i] = db.people[i])
         /\ \A i \in DOMAIN db.address :
              \/ db.address[i].entity_id \notin MergeGroup(r)
              \/ (db.address[i].entity_id = Keep(r) /\ i \notin PayloadAddressIds(r))
              => (i \in DOMAIN db'.address /\ db'.address[i] = db.address[i])
         /\ \A i \in DOMAIN db'.people \ DOMAIN db.people : db'.people[i].entity_id = Keep(r)
         /\ \A i \in DOMAIN db'.address \ DOMAIN db.address : db'.address[i].entity_id = Keep(r)]_vars

\* an applied merge whose payload named a person of an entity outside the group, while
\* naming none of the kept entity's own: both people are as they were at the start
C29_Witness ==
  \E r \in DOMAIN req :
    /\ Applied(req[r])
    /\ \E i \in PayloadPeopleIds(r) \cap DOMAIN InitPeople :
         /\ InitPeople[i].entity_id \notin MergeGroup(r)
         /\ db.people[i] = InitPeople[i]
    /\ \E i \in DOMAIN InitPeople \ PayloadPeopleIds(r) :
         /\ InitPeople[i].entity_id = Keep(r)
         /\ db.people[i] = InitPeople[i]
    /\ Len(db.people) > Len(InitPeople)

\* ------------------------------------------------------------------ correction loop
\* the executions in which $queryRawUnsafe returned rows
Succeeded == {k \in DOMAIN query.ran : query.ran[k].outcome # "database error"}
LoopFailure ==
  QueryResponse(FALSE, 400, "Failed to execute query after multiple attempts.")

\* the bounds of the loop alone: executions, corrections, responses
CorrectionLoopBounds ==
  /\ Len(query.ran) <= MAX_CORRECTION_ATTEMPTS + 1
  /\ query.corrections <= MAX_CORRECTION_ATTEMPTS
  /\ Len(query.responses) <= 1

\* C30: for one request the statement is executed at most MAX_CORRECTION_ATTEMPTS + 1
\* times and a corrected plan is requested at most MAX_CORRECTION_ATTEMPTS times; the
\* request gets one response; an execution that succeeds is the last one and is answered
\* with success; and the loop's failure response is given only after the third failed
\* execution or after a corrected plan reported successStatus = false.
C30_CorrectionLoopBounded ==
  /\ CorrectionLoopBounds
  /\ query.pc = "done" => Len(query.responses) = 1
  /\ \A k \in Succeeded :
       /\ k = Len(query.ran)
       /\ query.pc = "done"
       /\ query.responses = <<QueryResponse(TRUE, 200, "Query executed successfully")>>
  /\ query.responses = <<LoopFailure>> =>
       \/ Len(query.ran) = MAX_CORRECTION_ATTEMPTS + 1 /\ Succeeded = {}
       \/ query.corrections > 0 /\ ~query.queryPlan.successStatus


====
